---- MODULE Spec2Model ----
(***************************************************************************)
(* Model of the workflow engine of cdk-github-bug-reproducer:              *)
(*   - the context-memory store (agents/context_memory.py),                *)
(*   - ${var} interpolation, Step / Task / ExecuteCode / ForEach and       *)
(*     Process.run (issue_processor/process_definitions.py).               *)
(* Text (a string) is a sequence of one-character strings.                 *)
(***************************************************************************)
EXTENDS Integers, Sequences, FiniteSets, TLC

VARIABLES
    memory,     \* context_memory.memory: the server's in-process cache
    files,      \* the backing directory: file name -> file content (Text)
    cfg,        \* the Process under execution (its steps' parameters)
    thr,        \* one record per cooperative task: 0 = Process.run, k = iteration k
    locks,      \* ForEach.profile_locks: profile index -> holding task (0 = free)
    run,        \* number of the Process.run in progress
    phase,      \* "idle" (no run), "running", "done", "failed"
    expression_list, \* ForEach.expression_list of the running process
    current_step,    \* processor.Memory.current_step of the running process
    log,        \* ghost: calls made (agent, pool, work) in the current run
    hist,       \* ghost: the list resolutions of the ForEach over all runs
    inter,      \* state of the interpolation harness
    store,      \* state of the store harness
    agent,      \* a ConverseAgent and the invoke calls in progress on it
    pool,       \* an MCPClients pool and the Process.run that uses it
    job,        \* a process_issue call of the worker
    loop,       \* the event loop and the iteration tasks it runs
    mgr,        \* the account table and the account manager calls in progress
    scale,      \* the queue, the accounts and the desired count of the service
    hook,       \* a delivery to the webhook handler
    wkeys,      \* two positions of a process and the witnesses written for them
    nest        \* a ForEach nested in the iterations of a parallel ForEach

vars == <<memory, files, cfg, thr, locks, run, phase, expression_list,
          current_step, log, hist, inter, store, agent, pool, job, loop, mgr, scale, hook, wkeys, nest>>

----------------------------------------------------------------------------
(* Bounds *)
MaxItems == 3        \* longest iteration list
MaxProfiles == 2     \* most credential profiles
MaxRuns == 2         \* Process.run is started at most this many times
MaxTemplateLen == 6  \* longest template of the interpolation harness
MaxTurns == 3        \* model completions per invoke of the agent harness
MaxStoreOps == 3     \* store-harness operations per behaviour

----------------------------------------------------------------------------
(* Text *)

\* s[i..j] as a Text (empty when j < i)
Slice(s, i, j) == IF j < i THEN <<>> ELSE SubSeq(s, i, j)

\* whether pat occurs in s at position i
MatchAt(s, pat, i) ==
    /\ i + Len(pat) - 1 <= Len(s)
    /\ \A k \in 1..Len(pat) : s[i + k - 1] = pat[k]

Contains(s, pat) == \E i \in 1..Len(s) : MatchAt(s, pat, i)

RECURSIVE StrReplaceFrom(_, _, _, _)
StrReplaceFrom(s, old, new, i) ==
    IF i > Len(s) THEN <<>>
    ELSE IF MatchAt(s, old, i)
         THEN new \o StrReplaceFrom(s, old, new, i + Len(old))
         ELSE <<s[i]>> \o StrReplaceFrom(s, old, new, i + 1)

\* str.replace(old, new) for a non-empty old: every non-overlapping
\* occurrence, scanning left to right
StrReplace(s, old, new) == StrReplaceFrom(s, old, new, 1)

----------------------------------------------------------------------------
(* JSON values *)

JStr(s)  == [t |-> "str",  v |-> s]
JNum(n)  == [t |-> "num",  v |-> n]
JList(l) == [t |-> "list", v |-> l]
JObj(m)  == [t |-> "obj",  v |-> m]     \* m: sequence of <<key Text, value>>
JBool(b) == [t |-> "bool", v |-> b]
JNull    == [t |-> "null", v |-> 0]

Digits == <<"0", "1", "2", "3", "4", "5", "6", "7", "8", "9">>
DigitVal(c) == CHOOSE n \in 0..9 : Digits[n + 1] = c

RECURSIVE EscapeText(_)
\* json.dumps string escaping of the quote and the backslash
EscapeText(s) ==
    IF s = <<>> THEN <<>>
    ELSE (IF Head(s) \in {"\"", "\\"} THEN <<"\\", Head(s)>> ELSE <<Head(s)>>)
         \o EscapeText(Tail(s))

RECURSIVE json_dumps(_), DumpItems(_), DumpMembers(_)
DumpItems(l) ==
    IF l = <<>> THEN <<>>
    ELSE json_dumps(Head(l))
         \o (IF Len(l) > 1 THEN <<",", " ">> ELSE <<>>) \o DumpItems(Tail(l))
DumpMembers(m) ==
    IF m = <<>> THEN <<>>
    ELSE <<"\"">> \o EscapeText(Head(m)[1]) \o <<"\"", ":", " ">>
         \o json_dumps(Head(m)[2])
         \o (IF Len(m) > 1 THEN <<",", " ">> ELSE <<>>) \o DumpMembers(Tail(m))
\* json.dumps without string escaping
json_dumps_unescaped(v) ==
    CASE v.t = "str"  -> <<"\"">> \o v.v \o <<"\"">>
      [] v.t = "num"  -> <<Digits[v.v + 1]>>
      [] v.t = "bool" -> IF v.v THEN <<"t", "r", "u", "e">>
                         ELSE <<"f", "a", "l", "s", "e">>
      [] v.t = "null" -> <<"n", "u", "l", "l">>
      [] v.t = "list" -> <<"[">> \o DumpItems(v.v) \o <<"]">>
      [] v.t = "obj"  -> <<"{">> \o DumpMembers(v.v) \o <<"}">>
\* json.dumps(value) with the default separators
json_dumps(v) ==
    CASE v.t = "str"  -> <<"\"">> \o EscapeText(v.v) \o <<"\"">>
      [] v.t = "num"  -> <<Digits[v.v + 1]>>
      [] v.t = "bool" -> IF v.v THEN <<"t", "r", "u", "e">>
                         ELSE <<"f", "a", "l", "s", "e">>
      [] v.t = "null" -> <<"n", "u", "l", "l">>
      [] v.t = "list" -> <<"[">> \o DumpItems(v.v) \o <<"]">>
      [] v.t = "obj"  -> <<"{">> \o DumpMembers(v.v) \o <<"}">>

RECURSIVE ParseString(_, _, _), ParseValue(_, _), ParseItems(_, _, _),
          ParseMembers(_, _, _)
\* the body of a JSON string from position i (after the opening quote)
ParseString(s, i, acc) ==
    IF i > Len(s) THEN [v |-> acc, i |-> i, ok |-> FALSE]
    ELSE IF s[i] = "\"" THEN [v |-> acc, i |-> i + 1, ok |-> TRUE]
    ELSE IF s[i] = "\\"
         THEN IF i + 1 > Len(s) THEN [v |-> acc, i |-> i, ok |-> FALSE]
              ELSE ParseString(s, i + 2, Append(acc, s[i + 1]))
    ELSE ParseString(s, i + 1, Append(acc, s[i]))
ParseItems(s, i, acc) ==
    LET r == ParseValue(s, i) IN
    IF ~r.ok \/ r.i > Len(s) THEN [v |-> JNull, i |-> r.i, ok |-> FALSE]
    ELSE IF s[r.i] = ","
         THEN ParseItems(s, r.i + 2, Append(acc, r.v))
         ELSE [v |-> JList(Append(acc, r.v)), i |-> r.i + 1, ok |-> s[r.i] = "]"]
ParseMembers(s, i, acc) ==
    LET k == ParseString(s, i + 1, <<>>)
        r == ParseValue(s, k.i + 2)
        more == Append(acc, <<k.v, r.v>>) IN
    IF ~k.ok \/ ~r.ok \/ r.i > Len(s) THEN [v |-> JNull, i |-> r.i, ok |-> FALSE]
    ELSE IF s[r.i] = ","
         THEN ParseMembers(s, r.i + 2, more)
         ELSE [v |-> JObj(more), i |-> r.i + 1, ok |-> s[r.i] = "}"]
ParseValue(s, i) ==
    IF i > Len(s) THEN [v |-> JNull, i |-> i, ok |-> FALSE]
    ELSE LET c == s[i] IN
      CASE c = "\"" -> LET r == ParseString(s, i + 1, <<>>)
                       IN  [v |-> JStr(r.v), i |-> r.i, ok |-> r.ok]
        [] c = "["  -> IF i < Len(s) /\ s[i + 1] = "]"
                       THEN [v |-> JList(<<>>), i |-> i + 2, ok |-> TRUE]
                       ELSE ParseItems(s, i + 1, <<>>)
        [] c = "{"  -> IF i < Len(s) /\ s[i + 1] = "}"
                       THEN [v |-> JObj(<<>>), i |-> i + 2, ok |-> TRUE]
                       ELSE ParseMembers(s, i + 1, <<>>)
        [] c = "n"  -> [v |-> JNull, i |-> i + 4, ok |-> TRUE]
        [] c = "t"  -> [v |-> JBool(TRUE), i |-> i + 4, ok |-> TRUE]
        [] c = "f"  -> [v |-> JBool(FALSE), i |-> i + 5, ok |-> TRUE]
        [] c \in {Digits[n] : n \in 1..10}
                    -> [v |-> JNum(DigitVal(c)), i |-> i + 1, ok |-> TRUE]
        [] OTHER    -> [v |-> JNull, i |-> i, ok |-> FALSE]

\* json.loads(text): the parsed value (text written by json_dumps parses)
json_loads(s) == ParseValue(s, 1).v
\* whether json.loads accepts the whole text
json_valid(s) == LET r == ParseValue(s, 1) IN r.ok /\ r.i = Len(s) + 1

----------------------------------------------------------------------------
(* The context-memory store: cache `memory`, backing directory `files` *)

Put(f, k, v) == [x \in DOMAIN f \cup {k} |-> IF x = k THEN v ELSE f[x]]
Drop(f, k) == [x \in DOMAIN f \ {k} |-> f[x]]
EmptyMap == [x \in {} |-> <<>>]

\* "No entry found for the given key."
NO_ENTRY == <<"N", "o", " ", "e", "n", "t", "r", "y", " ", "f", "o", "u", "n",
              "d", " ", "f", "o", "r", " ", "t", "h", "e", " ", "g", "i", "v",
              "e", "n", " ", "k", "e", "y", ".">>
DONE == <<"d", "o", "n", "e">>

\* os.path.join(memory_dir, entry_key) is a directory: for the empty key it
\* is memory_dir itself
IsDirectory(k) == k = <<>>
\* open(os.path.join(memory_dir, entry_key), "w") succeeds: a directory
\* cannot be opened, and the store never makes a subdirectory, so the path of
\* a key with a "/" does not exist
Writable(k) == ~IsDirectory(k) /\ \A i \in 1..Len(k) : k[i] # "/"

\* add_or_update_memory_entry: the cache and the file after the call; the
\* cache is assigned before the file is opened
write_memory(mem, k, v) == Put(mem, k, v)
write_files(fl, k, v) == IF Writable(k) THEN Put(fl, k, json_dumps(v)) ELSE fl

\* read_memory_entry: the value returned
read_value(mem, fl, k) ==
    IF k \in DOMAIN mem THEN mem[k]
    ELSE IF k \in DOMAIN fl THEN json_loads(fl[k])
    ELSE JStr(NO_ENTRY)
\* read_memory_entry: the cache after the call (a file is loaded lazily)
read_memory(mem, fl, k) ==
    IF k \notin DOMAIN mem /\ k \in DOMAIN fl
    THEN Put(mem, k, json_loads(fl[k])) ELSE mem
\* read_memory_entry raises: the key is not cached, its path exists and
\* open(path, "r") fails on it
read_raises(mem, fl, k) == k \notin DOMAIN mem /\ k \notin DOMAIN fl /\ IsDirectory(k)
\* delete_memory_entry raises: the path exists and os.remove fails on it
delete_raises(k) == IsDirectory(k)

RECURSIVE read_many(_, _, _, _)
\* read_memory_entries: the cache, the result and whether it raised, after
\* the keys ks have been gone through in order (acc: the result so far)
read_many(mem, fl, ks, acc) ==
    IF ks = <<>> THEN [mem |-> mem, result |-> acc, raised |-> FALSE]
    ELSE IF read_raises(mem, fl, Head(ks))
    THEN [mem |-> mem, result |-> acc, raised |-> TRUE]
    ELSE read_many(read_memory(mem, fl, Head(ks)), fl, Tail(ks),
                   Put(acc, Head(ks), read_value(mem, fl, Head(ks))))

RECURSIVE write_many(_, _, _)
\* add_or_update_memory_entries: the cache, the files and whether it raised,
\* after the entries (<<key, value>> pairs) have been gone through in order
write_many(mem, fl, es) ==
    IF es = <<>> THEN [mem |-> mem, fl |-> fl, raised |-> FALSE]
    ELSE LET k == Head(es)[1]
             v == Head(es)[2] IN
         IF Writable(k)
         THEN write_many(write_memory(mem, k, v), write_files(fl, k, v), Tail(es))
         ELSE [mem |-> write_memory(mem, k, v), fl |-> fl, raised |-> TRUE]

\* list_memory_entries: list(memory.keys())
list_memory_entries(mem) == DOMAIN mem

\* file.startswith('.')
IsHidden(k) == Len(k) > 0 /\ k[1] = "."

\* __main__: every non-hidden file of the directory is loaded into the cache
startup_load(fl) == [k \in {f \in DOMAIN fl : ~IsHidden(f)} |-> json_loads(fl[k])]

RECURSIVE ToContent(_), ItemsContent(_)
ItemsContent(l) ==
    IF l = <<>> THEN <<>> ELSE ToContent(Head(l)) \o ItemsContent(Tail(l))
\* The content list of a tool result (the .text of each item): a string is
\* one item, a list the items of its elements, None no item, anything else
\* one item holding its JSON text.
ToContent(v) ==
    CASE v.t = "str"  -> <<v.v>>
      [] v.t = "list" -> ItemsContent(v.v)
      [] v.t = "null" -> <<>>
      [] OTHER        -> <<json_dumps(v)>>

\* the test `len(value.content) > 0 and value.content[0].text is not None and
\* value.content[0].text != "No entry found for the given key."`
HasEntry(content) == Len(content) > 0 /\ content[1] # NO_ENTRY

RECURSIVE JoinLines(_)
\* "\n".join(values)
JoinLines(l) ==
    IF l = <<>> THEN <<>>
    ELSE IF Len(l) = 1 THEN l[1]
    ELSE l[1] \o <<"\n">> \o JoinLines(Tail(l))
\* process_context_memory_return_value (for a tool result that has a value):
\* the text of a stored value, every content item of it
process_context_memory_return_value(content) == JoinLines(content)

----------------------------------------------------------------------------
(* replace_context_variables *)

\* index of the first "}" of s at or after i (0 when there is none)
FirstClose(s, i) ==
    IF \E j \in i..Len(s) : s[j] = "}"
    THEN CHOOSE j \in i..Len(s) : s[j] = "}" /\ \A h \in i..(j - 1) : s[h] # "}"
    ELSE 0

RECURSIVE FindAllFrom(_, _)
FindAllFrom(s, i) ==
    IF i + 3 > Len(s) THEN <<>>
    ELSE IF s[i] = "$" /\ s[i + 1] = "{" /\ s[i + 2] # "}"
            /\ FirstClose(s, i + 3) # 0
         THEN <<Slice(s, i + 2, FirstClose(s, i + 3) - 1)>>
              \o FindAllFrom(s, FirstClose(s, i + 3) + 1)
         ELSE FindAllFrom(s, i + 1)

\* re.findall(r'\${([^}]+)}', prompt): the variable names, in order
FindAll(s) == FindAllFrom(s, 1)

\* f"${{{var}}}"
Placeholder(var) == <<"$", "{">> \o var \o <<"}">>

\* One round of the loop over `variables`, for a variable of the override map
ReplaceFromOverride(prompt, var, ov) == StrReplace(prompt, Placeholder(var), ov[var])
\* One round of the loop, for a variable read from the store: `content` is
\* the tool result; the prompt is unchanged when there is no value
ReplaceFromMemory(prompt, var, content) ==
    IF HasEntry(content) THEN StrReplace(prompt, Placeholder(var), content[1])
    ELSE prompt

----------------------------------------------------------------------------
(* Steps and the Process *)

STATUS == <<"_", "s", "t", "a", "t", "u", "s">>
RESPONSE == <<"_", "r", "e", "s", "p", "o", "n", "s", "e">>
ITERATION_STATUS == <<"_", "i", "t", "e", "r", "a", "t", "i", "o", "n">> \o STATUS
EXPRESSION_LIST == <<"_", "e", "x", "p", "r", "e", "s", "s", "i", "o", "n",
                     "_", "l", "i", "s", "t">>
STEP == <<"s", "t", "e", "p">>
CURRENT_STEP == <<"c", "u", "r", "r", "e", "n", "t", "_">> \o STEP
NEXT_STEP == <<"n", "e", "x", "t", "_">> \o STEP

\* str(n) of a small natural number
Str(n) == <<Digits[n + 1]>>

\* an id that leaves out the parent id
get_id_unqualified(step_id, parent_id) == step_id

\* Step.get_id
get_id(step_id, parent_id) ==
    IF parent_id # <<>> THEN parent_id \o <<"_", "_">> \o step_id ELSE step_id

\* iteration ids counted from 0
get_iteration_id_zero(step_id, parent_id, n) ==
    get_id(step_id, parent_id) \o <<"_", "_">> \o Str(n - 1)
\* ForEach._get_iteration_id
get_iteration_id(step_id, parent_id, n) ==
    get_id(step_id, parent_id) \o <<"_", "_">> \o Str(n)

\* Task(step_id, summary, description): Step.__init__ leaves skippable True
Task(id, desc) ==
    [step_id |-> id, kind |-> "Task", skippable |-> TRUE, description |-> desc,
     variable_name |-> <<>>, is_parallel |-> FALSE, body |-> <<>>]
\* ExecuteCode(step_id, code, skippable): built without parameters
ExecuteCode(id, skip) ==
    [step_id |-> id, kind |-> "Code", skippable |-> skip, description |-> <<>>,
     variable_name |-> <<>>, is_parallel |-> FALSE, body |-> <<>>]
\* ForEach(step_id, variable_name, expression, body, is_parallel)
ForEach(id, var, body, par) ==
    [step_id |-> id, kind |-> "ForEach", skippable |-> TRUE, description |-> <<>>,
     variable_name |-> var, is_parallel |-> par, body |-> body]

\* The process inputs, in the order of the dict
Inputs == << <<(<<"i">>), JStr(<<"7">>)>>, <<(<<"r">>), JStr(<<"p">>)>> >>

\* The candidate iteration items
Items == <<(<<"a">>), (<<"b">>), (<<"c">>), (<<"d">>), (<<"e">>)>>

\* The steps of the process: a Task over an input, a code step (the callable
\* is Memory.move_to_next_step) and a ForEach whose body is one Task over the
\* loop variable x.
ProcessSteps(c) ==
    << Task(<<"s", "1">>, <<"$", "{", "i", "}">>),
       ExecuteCode(<<"c", "1">>, c.code_skippable),
       ForEach(<<"f", "1">>, <<"x">>,
               << Task(<<"b", "1">>, <<"$", "{", "x", "}">>) >>,
               c.is_parallel) >>

Configs ==
    [is_parallel : BOOLEAN, code_skippable : BOOLEAN, list_func : BOOLEAN,
     items : {SubSeq(Items, 1, n) : n \in 0..MaxItems},
     nprofiles : 1..MaxProfiles]

Threads == 0..MaxItems
Iterations == 1..MaxItems

IdleThread ==
    [pc |-> "idle", k |-> 0, prompt |-> <<>>, vars |-> <<>>, response |-> <<>>,
     profile |-> 0, agent |-> 0, ov |-> EmptyMap, alias |-> FALSE]

NoCalls == [work |-> 0, agent |-> 0, pool |-> 0]
Count(l, q) == IF q \in DOMAIN l THEN l[q] ELSE NoCalls
Bump(l, q, f) == Put(l, q, [Count(l, q) EXCEPT ![f] = @ + 1])

TopSteps == ProcessSteps(cfg)
\* the ForEach the iteration tasks belong to
TheForEach == TopSteps[3]
\* the step task t is executing, the parent id it was given and its qualified id
StepOf(t) == IF t = 0 THEN TopSteps[thr[0].k] ELSE TheForEach.body[thr[t].k]
ParentId(t) ==
    IF t = 0 THEN <<>> ELSE get_iteration_id(TheForEach.step_id, <<>>, t)
Qid(t) == get_id(StepOf(t).step_id, ParentId(t))
\* the override map the steps of task t are executed with
Overrides(t) == IF thr[t].alias THEN thr[0].ov ELSE thr[t].ov

\* the tool result of read_memory_entry(k)
Content(k) == ToContent(read_value(memory, files, k))
StoreRead(k) == memory' = read_memory(memory, files, k) /\ UNCHANGED files
StoreWrite(k, v) ==
    /\ memory' = write_memory(memory, k, v)
    /\ files' = write_files(files, k, v)

Running == phase = "running"
At(t, pc) == Running /\ thr[t].pc = pc

----------------------------------------------------------------------------
(* Step.execute and the leaf steps *)

\* a test that ignores the skippable flag
ShouldSkipDone(step, content) == Len(content) > 0 /\ content[1] = DONE
\* a test that never skips
ShouldSkipNever(step, content) == FALSE
\* the test of Step.execute: `self.skippable and len(value.content) > 0 and
\* value.content[0].text == "done"`
ShouldSkip(step, content) ==
    step.skippable /\ Len(content) > 0 /\ content[1] = DONE

\* an execute that goes to the write of the witness at once
ActualPcSkip(kind) == "wstatus"
\* where actual_execute of each variant starts
ActualPc(kind) ==
    CASE kind = "Task" -> "agent" [] kind = "Code" -> "code" [] OTHER -> "getlist"

\* The tasks after the execute call of task t has returned: the caller's
\* loop goes on to the next step (Process.run for task 0, the body loop of
\* _actual_process_iteration for an iteration).
Returned(th, t) ==
    LET n == IF t = 0 THEN Len(TopSteps) ELSE Len(TheForEach.body)
        fresh == [th[t] EXCEPT !.prompt = <<>>, !.vars = <<>>, !.response = <<>>,
                               !.agent = 0]
    IN  IF th[t].k < n
        THEN [th EXCEPT ![t] = [fresh EXCEPT !.pc = "check", !.k = @ + 1]]
        ELSE [th EXCEPT ![t] = [fresh EXCEPT !.pc = IF t = 0 THEN "exit" ELSE "itermark"]]

\* Step.execute up to the call of actual_execute: the DONE witness is read;
\* a skippable step that has it returns at once.
ExecuteCheck(t) ==
    /\ At(t, "check")
    /\ LET step == StepOf(t)
           q == Qid(t)
           content == Content(q \o STATUS)
       IN  /\ StoreRead(q \o STATUS)
           /\ IF ShouldSkip(step, content)
              THEN thr' = Returned(thr, t) /\ log' = log
              ELSE /\ thr' = [thr EXCEPT ![t].pc = ActualPc(step.kind)]
                   /\ log' = Bump(log, q, "work")
    /\ UNCHANGED <<cfg, locks, run, phase, expression_list, current_step,
                   hist, inter, store, agent, pool, job, loop, mgr, scale, hook, wkeys, nest>>

\* Step.execute after actual_execute: the DONE witness is written
WriteStatus(t) ==
    /\ At(t, "wstatus")
    /\ StoreWrite(Qid(t) \o STATUS, JStr(DONE))
    /\ thr' = Returned(thr, t)
    /\ UNCHANGED <<cfg, locks, run, phase, expression_list, current_step, log,
                   hist, inter, store, agent, pool, job, loop, mgr, scale, hook, wkeys, nest>>

\* the profile a Task builds its agent with: profiles[0] of the list it got
AgentProfile(t) == IF t = 0 THEN 1 ELSE thr[t].profile

\* Task.actual_execute: _create_agent (the pool lists its tools), then the
\* prompt is composed and its variables found
TaskCreateAgent(t) ==
    /\ At(t, "agent")
    /\ LET prompt == StepOf(t).description
           variables == FindAll(prompt)
       IN  thr' = [thr EXCEPT ![t].agent = AgentProfile(t),
                              ![t].prompt = prompt,
                              ![t].vars = variables,
                              ![t].pc = IF variables = <<>> THEN "invoke" ELSE "interp"]
    /\ log' = Bump(log, Qid(t), "pool")
    /\ UNCHANGED <<memory, files, cfg, locks, run, phase, expression_list,
                   current_step, hist, inter, store, agent, pool, job, loop, mgr, scale, hook, wkeys, nest>>

\* replace_context_variables: one round of `for var in variables`
InterpolateVar(t) ==
    /\ At(t, "interp")
    /\ LET var == Head(thr[t].vars)
           rest == Tail(thr[t].vars)
           ov == Overrides(t)
           prompt == IF var \in DOMAIN ov
                     THEN ReplaceFromOverride(thr[t].prompt, var, ov)
                     ELSE ReplaceFromMemory(thr[t].prompt, var, Content(var))
       IN  /\ IF var \in DOMAIN ov THEN UNCHANGED <<memory, files>>
              ELSE StoreRead(var)
           /\ thr' = [thr EXCEPT ![t].prompt = prompt, ![t].vars = rest,
                                 ![t].pc = IF rest = <<>> THEN "invoke" ELSE "interp"]
    /\ UNCHANGED <<cfg, locks, run, phase, expression_list, current_step, log,
                   hist, inter, store, agent, pool, job, loop, mgr, scale, hook, wkeys, nest>>

\* the model's reply to a prompt: the agent answers with the text it was given
AgentReply(prompt) == prompt

\* Task.actual_execute: agent.invoke_with_prompt returns the response
TaskInvoke(t) ==
    /\ At(t, "invoke")
    /\ thr' = [thr EXCEPT ![t].response = AgentReply(thr[t].prompt),
                          ![t].pc = "wresp"]
    /\ log' = Bump(log, Qid(t), "agent")
    /\ UNCHANGED <<memory, files, cfg, locks, run, phase, expression_list,
                   current_step, hist, inter, store, agent, pool, job, loop, mgr, scale, hook, wkeys, nest>>

\* a response key that leaves out the parent id
ResponseKeyUnqualified(step_id, parent_id) == step_id \o RESPONSE
\* f"{self.get_id(parent_id)}_response"
ResponseKey(step_id, parent_id) == get_id(step_id, parent_id) \o RESPONSE

\* Task.actual_execute: the response is stored under <qid>_response
TaskWriteResponse(t) ==
    /\ At(t, "wresp")
    /\ StoreWrite(ResponseKey(StepOf(t).step_id, ParentId(t)),
                  JStr(thr[t].response))
    /\ thr' = [thr EXCEPT ![t].pc = "wstatus"]
    /\ UNCHANGED <<cfg, locks, run, phase, expression_list, current_step, log,
                   hist, inter, store, agent, pool, job, loop, mgr, scale, hook, wkeys, nest>>

\* ExecuteCode.actual_execute running Memory.move_to_next_step: the counter
\* is advanced and current_step written ...
CodeCurrentStep(t) ==
    /\ At(t, "code")
    /\ current_step' = current_step + 1
    /\ StoreWrite(CURRENT_STEP, JStr(STEP \o Str(current_step + 1)))
    /\ thr' = [thr EXCEPT ![t].pc = "code2"]
    /\ UNCHANGED <<cfg, locks, run, phase, expression_list, log, hist, inter, store, agent, pool, job, loop, mgr, scale, hook, wkeys, nest>>

\* ... then next_step written, and the callable returns
CodeNextStep(t) ==
    /\ At(t, "code2")
    /\ StoreWrite(NEXT_STEP, JStr(STEP \o Str(current_step + 1)))
    /\ thr' = [thr EXCEPT ![t].pc = "wstatus"]
    /\ UNCHANGED <<cfg, locks, run, phase, expression_list, current_step, log,
                   hist, inter, store, agent, pool, job, loop, mgr, scale, hook, wkeys, nest>>

----------------------------------------------------------------------------
(* ForEach *)

ListKey == get_id(TheForEach.step_id, <<>>) \o EXPRESSION_LIST
IterationKey(t) ==
    get_iteration_id(TheForEach.step_id, <<>>, t) \o ITERATION_STATUS

\* the list the agent is asked to determine and store
AgentList == JList([n \in 1..Len(cfg.items) |-> JStr(cfg.items[n])])

\* the run is over: Process.run has left `async with MCPClients`, the tool
\* servers (the store's process with them) are gone, so are the tasks
RunEnds(how) ==
    /\ phase' = how
    /\ thr' = [t \in Threads |-> IdleThread]
    /\ locks' = [p \in 1..MaxProfiles |-> 0]
    /\ memory' = EmptyMap
    /\ expression_list' = <<>>
    /\ current_step' = 0
    /\ log' = EmptyMap

\* _get_expression_list with expression_list_func: the callable gives the list
GetListFunc ==
    /\ At(0, "getlist") /\ cfg.list_func
    /\ expression_list' = cfg.items
    /\ thr' = [thr EXCEPT ![0].pc = "fanout"]
    /\ UNCHANGED <<memory, files, cfg, locks, run, phase, current_step, log,
                   hist, inter, store, agent, pool, job, loop, mgr, scale, hook, wkeys, nest>>

\* a memo check that never finds the list
ListCachedNever(content) == FALSE
\* the first test of _get_expression_list: a list computed before is reused
ListCached(content) == HasEntry(content)

\* _get_expression_list without a callable: the stored list is read; when
\* there is none an agent is to compute it
GetListRead ==
    /\ At(0, "getlist") /\ ~cfg.list_func
    /\ StoreRead(ListKey)
    /\ IF ListCached(Content(ListKey))
       THEN /\ expression_list' = Content(ListKey)
            /\ thr' = [thr EXCEPT ![0].pc = "fanout"]
            /\ hist' = [hist EXCEPT !.calls = @ + 1,
                                    !.mark = IF hist.lists = <<>> THEN hist.computes ELSE @,
                                    !.lists = Append(@, Content(ListKey))]
       ELSE /\ UNCHANGED expression_list
            /\ thr' = [thr EXCEPT ![0].pc = "listagent"]
            /\ hist' = [hist EXCEPT !.calls = @ + 1,
                                    !.mark = IF hist.lists = <<>> THEN hist.computes ELSE @]
    /\ UNCHANGED <<cfg, locks, run, phase, current_step, log, inter, store, agent, pool, job, loop, mgr, scale, hook, wkeys, nest>>

\* _get_expression_list: _create_agent(mcp_clients, profile)
ListCreateAgent ==
    /\ At(0, "listagent")
    /\ thr' = [thr EXCEPT ![0].agent = 1, ![0].pc = "listinvoke"]
    /\ log' = Bump(log, Qid(0), "pool")
    /\ UNCHANGED <<memory, files, cfg, locks, run, phase, expression_list,
                   current_step, hist, inter, store, agent, pool, job, loop, mgr, scale, hook, wkeys, nest>>

\* _get_expression_list: the agent is invoked; it stores the list under
\* <qid>_expression_list through the memory tool, or fails to
ListInvoke ==
    /\ At(0, "listinvoke")
    /\ \E stores \in BOOLEAN :
         IF stores THEN StoreWrite(ListKey, AgentList)
         ELSE UNCHANGED <<memory, files>>
    /\ thr' = [thr EXCEPT ![0].pc = "listread"]
    /\ log' = Bump(log, Qid(0), "agent")
    /\ hist' = [hist EXCEPT !.computes = @ + 1]
    /\ UNCHANGED <<cfg, locks, run, phase, expression_list, current_step,
                   inter, store, agent, pool, job, loop, mgr, scale, hook, wkeys, nest>>

\* _get_expression_list: the list is read back
ListRead ==
    /\ At(0, "listread") /\ HasEntry(Content(ListKey))
    /\ StoreRead(ListKey)
    /\ expression_list' = Content(ListKey)
    /\ thr' = [thr EXCEPT ![0].pc = "fanout"]
    /\ hist' = [hist EXCEPT !.lists = Append(@, Content(ListKey))]
    /\ UNCHANGED <<cfg, locks, run, phase, current_step, log, inter, store, agent, pool, job, loop, mgr, scale, hook, wkeys, nest>>

\* a list that is not there taken as the empty list: no raise
ListMissingEmpty ==
    /\ At(0, "listread") /\ ~HasEntry(Content(ListKey))
    /\ StoreRead(ListKey)
    /\ expression_list' = <<>>
    /\ thr' = [thr EXCEPT ![0].pc = "fanout"]
    /\ UNCHANGED <<cfg, locks, run, phase, current_step, log, hist, inter, store, agent, pool, job, loop, mgr, scale, hook, wkeys, nest>>

\* _get_expression_list: raise Exception("Failed to calculate expression_list"),
\* caught by Process.run
ListMissing ==
    /\ At(0, "listread") /\ ~HasEntry(Content(ListKey))
    /\ RunEnds("failed")
    /\ hist' = [hist EXCEPT !.stops = @ + 1]
    /\ UNCHANGED <<files, cfg, run, inter, store, agent, pool, job, loop, mgr, scale, hook, wkeys, nest>>

\* every iteration on the first profile
ProfileFirst(i, nprofiles) == 1
\* pid of the loop of actual_execute: profiles[(i - 1) % len(profiles)]
ProfileIndex(i, nprofiles) == ((i - 1) % nprofiles) + 1

\* sequential mode with every iteration started at once
SequentialAllAtOnce(th, n) ==
    [t \in Threads |->
        IF t = 0 THEN [th[0] EXCEPT !.pc = IF n = 0 THEN "wstatus" ELSE "seq"]
        ELSE IF t <= n
        THEN [IdleThread EXCEPT !.pc = "itercheck", !.profile = 1]
        ELSE th[t]]
\* the sequential loop of actual_execute: _process_iteration of the first
\* item is called with profiles[0]; the later ones wait for their turn
SequentialLoop(th, n) ==
    [t \in Threads |->
        IF t = 0 THEN [th[0] EXCEPT !.pc = IF n = 0 THEN "wstatus" ELSE "seq"]
        ELSE IF t <= n
        THEN [IdleThread EXCEPT !.pc = IF t = 1 THEN "itercheck" ELSE "wait",
                                !.profile = 1]
        ELSE th[t]]

\* the parallel branch of actual_execute: one task per item, each with its
\* profile, all handed to asyncio.gather
ParallelTasks(th, n, nprofiles) ==
    [t \in Threads |->
        IF t = 0 THEN [th[0] EXCEPT !.pc = "gather"]
        ELSE IF t <= n
        THEN [IdleThread EXCEPT !.pc = "lock",
                                !.profile = ProfileIndex(t, nprofiles)]
        ELSE th[t]]

\* ForEach.actual_execute after the list is resolved
FanOut ==
    /\ At(0, "fanout")
    /\ thr' = IF TheForEach.is_parallel
              THEN ParallelTasks(thr, Len(expression_list), cfg.nprofiles)
              ELSE SequentialLoop(thr, Len(expression_list))
    /\ UNCHANGED <<memory, files, cfg, locks, run, phase, expression_list,
                   current_step, log, hist, inter, store, agent, pool, job, loop, mgr, scale, hook, wkeys, nest>>

\* a lock that is never held
LockAlwaysFree(lk, p) == TRUE
\* asyncio.Lock: acquire proceeds when the lock is not held
LockFree(lk, p) == lk[p] = 0

\* _process_iteration_wrapper: `async with self.profile_locks[profile]`
IterationLock(t) ==
    /\ t \in Iterations /\ At(t, "lock")
    /\ LockFree(locks, thr[t].profile)
    /\ locks' = [locks EXCEPT ![thr[t].profile] = t]
    /\ thr' = [thr EXCEPT ![t].pc = "itercheck"]
    /\ UNCHANGED <<memory, files, cfg, run, phase, expression_list,
                   current_step, log, hist, inter, store, agent, pool, job, loop, mgr, scale, hook, wkeys, nest>>

\* a test that takes no iteration as done
IterationNeverDone(content) == FALSE
\* the test of _process_iteration: `len(value.content) > 0 and
\* "done" == value.content[0].text`
IterationDone(content) == Len(content) > 0 /\ content[1] = DONE

\* The tasks after _process_iteration of iteration t has returned: in
\* sequential mode the loop calls the next iteration, or actual_execute
\* returns to Step.execute after the last one.
IterationReturned(th, t) ==
    IF TheForEach.is_parallel THEN [th EXCEPT ![t].pc = "done"]
    ELSE IF t < Len(expression_list)
    THEN [th EXCEPT ![t].pc = "done", ![t + 1].pc = "itercheck"]
    ELSE [th EXCEPT ![t].pc = "done", ![0].pc = "wstatus"]
\* locks that are kept on return
ReleasedNever(lk, t) == lk
\* the locks after it: leaving `async with` releases the profile's lock
Released(lk, t) ==
    IF TheForEach.is_parallel THEN [lk EXCEPT ![thr[t].profile] = 0] ELSE lk

\* _process_iteration: the iteration marker is read; a done iteration returns
IterationCheck(t) ==
    /\ t \in Iterations /\ At(t, "itercheck")
    /\ StoreRead(IterationKey(t))
    /\ IF IterationDone(Content(IterationKey(t)))
       THEN /\ thr' = IterationReturned(thr, t)
            /\ locks' = Released(locks, t)
            /\ log' = log
       ELSE /\ thr' = [thr EXCEPT ![t].pc = "setvar"]
            /\ locks' = locks
            /\ log' = Bump(log, ParentId(t), "work")
    /\ UNCHANGED <<cfg, run, phase, expression_list, current_step, hist, inter, store, agent, pool, job, loop, mgr, scale, hook, wkeys, nest>>

\* the override map written in place into the caller's map
DeriveInPlace(caller, name, item) ==
    [caller |-> Put(caller, name, item), own |-> EmptyMap, alias |-> TRUE]
\* updated_overrwirte_contex_memory = {**overrwirte_contex_memory, name: item}
DeriveOverrides(caller, name, item) ==
    [caller |-> caller, own |-> Put(caller, name, item), alias |-> FALSE]

\* _actual_process_iteration: the loop variable is written to the store, the
\* iteration's override map is derived, and the body loop starts
IterationSetVar(t) ==
    /\ t \in Iterations /\ At(t, "setvar")
    /\ StoreWrite(TheForEach.variable_name, JStr(expression_list[t]))
    /\ LET d == DeriveOverrides(thr[0].ov, TheForEach.variable_name,
                                expression_list[t])
       IN  thr' = [thr EXCEPT ![0].ov = d.caller,
                              ![t].ov = d.own, ![t].alias = d.alias,
                              ![t].k = 1, ![t].pc = "check"]
    /\ UNCHANGED <<cfg, locks, run, phase, expression_list, current_step, log,
                   hist, inter, store, agent, pool, job, loop, mgr, scale, hook, wkeys, nest>>

\* _process_iteration: the marker <iteration id>_iteration_status is written
IterationMark(t) ==
    /\ t \in Iterations /\ At(t, "itermark")
    /\ StoreWrite(IterationKey(t), JStr(DONE))
    /\ thr' = IterationReturned(thr, t)
    /\ locks' = Released(locks, t)
    /\ UNCHANGED <<cfg, run, phase, expression_list, current_step, log,
                   hist, inter, store, agent, pool, job, loop, mgr, scale, hook, wkeys, nest>>

\* a gather that returns with the first iteration that is over
GatherFirst ==
    /\ At(0, "gather")
    /\ \E t \in 1..Len(expression_list) : thr[t].pc = "done"
    /\ thr' = [thr EXCEPT ![0].pc = "wstatus"]
    /\ UNCHANGED <<memory, files, cfg, locks, run, phase, expression_list,
                   current_step, log, hist, inter, store, agent, pool, job, loop, mgr, scale, hook, wkeys, nest>>

\* actual_execute: `await asyncio.gather(*tasks)` returns when every task has
Gather ==
    /\ At(0, "gather")
    /\ \A t \in 1..Len(expression_list) : thr[t].pc = "done"
    /\ thr' = [thr EXCEPT ![0].pc = "wstatus"]
    /\ UNCHANGED <<memory, files, cfg, locks, run, phase, expression_list,
                   current_step, log, hist, inter, store, agent, pool, job, loop, mgr, scale, hook, wkeys, nest>>

----------------------------------------------------------------------------
(* Process.run *)

\* a fresh Process (and a fresh processor.Memory) is built and run() called
StartRun ==
    /\ phase \in {"idle", "done", "failed", "crashed"}
    /\ run < MaxRuns
    /\ run' = run + 1
    /\ phase' = "running"
    /\ thr' = [t \in Threads |-> IF t = 0 THEN [IdleThread EXCEPT !.pc = "enter"]
                                 ELSE IdleThread]
    /\ expression_list' = <<>>
    /\ current_step' = 0
    /\ log' = EmptyMap
    /\ UNCHANGED <<memory, files, cfg, locks, hist, inter, store, agent, pool, job, loop, mgr, scale, hook, wkeys, nest>>

\* `async with MCPClients(...)`: the tool servers start; the store loads its
\* directory
EnterClients ==
    /\ At(0, "enter")
    /\ memory' = startup_load(files)
    /\ thr' = [thr EXCEPT ![0].pc = "seed", ![0].k = 1]
    /\ UNCHANGED <<files, cfg, locks, run, phase, expression_list,
                   current_step, log, hist, inter, store, agent, pool, job, loop, mgr, scale, hook, wkeys, nest>>

\* a seeding that stops after the first input
SeedInputFirst ==
    /\ At(0, "seed")
    /\ StoreWrite(Inputs[thr[0].k][1], Inputs[thr[0].k][2])
    /\ thr' = [thr EXCEPT ![0].k = 1, ![0].pc = "check"]
    /\ UNCHANGED <<cfg, locks, run, phase, expression_list, current_step, log,
                   hist, inter, store, agent, pool, job, loop, mgr, scale, hook, wkeys, nest>>

\* `for input_variable in self.inputs.keys()`: one input is written
SeedInput ==
    /\ At(0, "seed")
    /\ StoreWrite(Inputs[thr[0].k][1], Inputs[thr[0].k][2])
    /\ thr' = IF thr[0].k < Len(Inputs)
              THEN [thr EXCEPT ![0].k = @ + 1]
              ELSE [thr EXCEPT ![0].k = 1, ![0].pc = "check"]
    /\ UNCHANGED <<cfg, locks, run, phase, expression_list, current_step, log,
                   hist, inter, store, agent, pool, job, loop, mgr, scale, hook, wkeys, nest>>

\* the step loop is over: run leaves `async with` and returns
ExitRun ==
    /\ At(0, "exit")
    /\ RunEnds("done")
    /\ UNCHANGED <<files, cfg, run, hist, inter, store, agent, pool, job, loop, mgr, scale, hook, wkeys, nest>>

\* a fault of the completion call that invoke does not retry: the exception
\* reaches the `except` of Process.run
AgentFault(t) ==
    /\ Running /\ thr[t].pc \in {"invoke", "listinvoke"}
    /\ RunEnds("failed")
    /\ hist' = [hist EXCEPT !.stops = @ + 1]
    /\ UNCHANGED <<files, cfg, run, inter, store, agent, pool, job, loop, mgr, scale, hook, wkeys, nest>>

\* the worker process is killed: an interruption at any point of a run
Crash ==
    /\ Running
    /\ RunEnds("crashed")
    /\ hist' = [hist EXCEPT !.stops = @ + 1]
    /\ UNCHANGED <<files, cfg, run, inter, store, agent, pool, job, loop, mgr, scale, hook, wkeys, nest>>

----------------------------------------------------------------------------
(* The engine specification *)

InitEngine ==
    /\ memory = EmptyMap
    /\ files = EmptyMap
    /\ cfg \in Configs
    /\ thr = [t \in Threads |-> IdleThread]
    /\ locks = [p \in 1..MaxProfiles |-> 0]
    /\ run = 0
    /\ phase = "idle"
    /\ expression_list = <<>>
    /\ current_step = 0
    /\ log = EmptyMap
    /\ hist = [calls |-> 0, computes |-> 0, mark |-> 0, lists |-> <<>>, stops |-> 0]
    /\ inter = <<>>
    /\ store = <<>>
    /\ agent = <<>>
    /\ pool = <<>>
    /\ job = <<>> /\ loop = <<>>
    /\ mgr = <<>> /\ scale = <<>> /\ hook = <<>>
    /\ wkeys = <<>> /\ nest = <<>>

Init == InitEngine

\* the steps of runs in which nothing faults
NextLive ==
    \/ StartRun
    \/ EnterClients
    \/ SeedInput
    \/ \E t \in Threads : ExecuteCheck(t)
    \/ \E t \in Threads : TaskCreateAgent(t)
    \/ \E t \in Threads : InterpolateVar(t)
    \/ \E t \in Threads : TaskInvoke(t)
    \/ \E t \in Threads : TaskWriteResponse(t)
    \/ \E t \in Threads : CodeCurrentStep(t)
    \/ \E t \in Threads : CodeNextStep(t)
    \/ \E t \in Threads : WriteStatus(t)
    \/ GetListFunc
    \/ GetListRead
    \/ ListCreateAgent
    \/ ListInvoke
    \/ ListRead
    \/ ListMissing
    \/ FanOut
    \/ \E t \in Iterations : IterationLock(t)
    \/ \E t \in Iterations : IterationCheck(t)
    \/ \E t \in Iterations : IterationSetVar(t)
    \/ \E t \in Iterations : IterationMark(t)
    \/ Gather
    \/ ExitRun

Next ==
    \/ NextLive
    \/ \E t \in Threads : AgentFault(t)
    \/ Crash

Spec == Init /\ [][Next]_vars

\* Fault-free runs under the scheduling of the asyncio event loop: a ready
\* callback is run as long as there is one (weak fairness of the steps).
SpecLive == Init /\ [][NextLive]_vars /\ WF_vars(NextLive)

----------------------------------------------------------------------------
(* Properties of the engine *)

\* the entries of the memory namespace, as the backing directory holds them
Entries == [k \in DOMAIN files |-> json_loads(files[k])]

\* the DONE witness <qid>_status = "done" is present
HasWitness(q) ==
    LET c == Content(q \o STATUS) IN Len(c) > 0 /\ c[1] = DONE
\* the marker <iteration id>_iteration_status = "done" is present
HasMarker(q) ==
    LET c == Content(q \o ITERATION_STATUS) IN Len(c) > 0 /\ c[1] = DONE

IterationId(n) == get_iteration_id(TheForEach.step_id, <<>>, n)
BodyTaskId(n) == get_id(TheForEach.body[1].step_id, IterationId(n))
TaskQids == {get_id(TopSteps[1].step_id, <<>>)} \cup {BodyTaskId(n) : n \in Iterations}
\* task t is inside _process_iteration
InBody(t) == thr[t].pc \notin {"idle", "lock", "wait", "done"}

\* task t, at the head of Step.execute of a skippable step whose DONE witness
\* is present, takes its step
SkipStep(t) ==
    /\ At(t, "check") /\ StepOf(t).skippable /\ HasWitness(Qid(t))
    /\ phase' = "running" /\ thr'[t] # thr[t]

\* C1: execute of a skippable step (Task, ForEach, skippable ExecuteCode)
\* whose DONE witness is present returns without any call of the agent, of
\* the tool client pool or of actual_execute, and leaves every memory entry
\* as it was.
C1_IdempotentReexecution ==
    [][\A t \in Threads :
          SkipStep(t) => /\ memory' = memory /\ files' = files
                         /\ log' = log /\ hist' = hist
                         /\ thr'[t] = Returned(thr, t)[t]]_vars

\* C1 witness: a second run has gone through the Task, the skippable
\* ExecuteCode and the ForEach, all done before, without any call.
C1_Witness ==
    /\ run = 2 /\ At(0, "exit") /\ cfg.code_skippable /\ log = EmptyMap
    /\ \A k \in 1..3 : HasWitness(TopSteps[k].step_id)

\* the work of q (actual_execute, or _actual_process_iteration) starts
WorkStarts(q) == Count(log', q).work > Count(log, q).work
NonSkippableIds == {get_id(TopSteps[k].step_id, <<>>) : k \in {j \in 1..3 : ~TopSteps[j].skippable}}

RECURSIVE IterationEntries(_, _, _)
\* what iterations 1..n leave in memory
IterationEntries(f, items, n) ==
    IF n = 0 THEN f
    ELSE Put(Put(Put(IterationEntries(f, items, n - 1),
                     BodyTaskId(n) \o RESPONSE, JStr(items[n])),
                 BodyTaskId(n) \o STATUS, JStr(DONE)),
             IterationId(n) \o ITERATION_STATUS, JStr(DONE))

\* the memory after an uninterrupted run of the process c in which the
\* loop variable was last written by iteration x (0: no iteration)
UninterruptedEntries(c, x) ==
    LET top == [k \in {<<"i">>, <<"r">>, <<"s", "1">> \o RESPONSE,
                       <<"s", "1">> \o STATUS, CURRENT_STEP, NEXT_STEP,
                       <<"c", "1">> \o STATUS, <<"f", "1">> \o STATUS} |->
                  CASE k = <<"i">> -> JStr(<<"7">>)
                    [] k = <<"r">> -> JStr(<<"p">>)
                    [] k = <<"s", "1">> \o RESPONSE -> JStr(<<"7">>)
                    [] k = CURRENT_STEP -> JStr(STEP \o <<"1">>)
                    [] k = NEXT_STEP -> JStr(STEP \o <<"2">>)
                    [] OTHER -> JStr(DONE)]
        list == IF c.list_func THEN top
                ELSE Put(top, <<"f", "1">> \o EXPRESSION_LIST,
                         JList([n \in 1..Len(c.items) |-> JStr(c.items[n])]))
        var == IF x = 0 THEN list ELSE Put(list, <<"x">>, JStr(c.items[x]))
    IN  IterationEntries(var, c.items, Len(c.items))

\* the memories an uninterrupted run can end with: in sequential mode the
\* last item is the last written, in parallel mode any item can be
UninterruptedResults(c) ==
    IF Len(c.items) = 0 THEN {UninterruptedEntries(c, 0)}
    ELSE IF c.is_parallel
    THEN {UninterruptedEntries(c, n) : n \in 1..Len(c.items)}
    ELSE {UninterruptedEntries(c, Len(c.items))}

FinalAsUninterrupted == phase = "done" => Entries \in UninterruptedResults(cfg)

C3_ProfileBounding ==
    TheForEach.is_parallel =>
        \A t1, t2 \in Iterations :
            (t1 # t2 /\ InBody(t1) /\ InBody(t2)) => thr[t1].profile # thr[t2].profile

\* C3 witness: more iterations than profiles; two iterations on different
\* profiles are in their bodies while a third waits for the lock of one.
C3_Witness ==
    /\ TheForEach.is_parallel /\ Len(expression_list) > cfg.nprofiles
    /\ \E t1, t2, t3 \in Iterations :
          /\ t1 # t2 /\ thr[t1].pc = "invoke" /\ thr[t2].pc = "invoke"
          /\ thr[t3].pc = "lock" /\ thr[t3].profile = thr[t1].profile

\* C4: in a parallel ForEach whose bodies terminate without fault, once the
\* iteration tasks are gathered every iteration eventually has its
\* _iteration_status marker "done" and the ForEach then has its DONE witness;
\* no iteration waits forever for its profile lock.
C4_ParallelLiveness ==
    (At(0, "gather") /\ TheForEach.is_parallel)
        ~> /\ \A n \in 1..Len(cfg.items) : HasMarker(IterationId(n))
           /\ \A n \in Iterations : thr[n].pc # "lock"
           /\ HasWitness(TheForEach.step_id)

\* C4 witness: three parallel iterations over two profiles have all done
\* their work and written their markers, and the ForEach has its witness.
C4_Witness ==
    /\ TheForEach.is_parallel /\ Len(expression_list) = 3 /\ cfg.nprofiles = 2
    /\ At(0, "exit") /\ HasWitness(TheForEach.step_id)
    /\ \A n \in 1..3 : HasMarker(IterationId(n)) /\ Count(log, IterationId(n)).work = 1

\* C5: the body step of the iteration over item x resolves ${x} to that
\* item, whatever the shared loop-variable entry holds, and the override map
\* of the caller (the empty map of Process.run) is never changed.
C5_LoopVariableIsolation ==
    /\ thr[0].ov = EmptyMap
    /\ \A t \in Iterations :
          (Running /\ thr[t].pc \in {"invoke", "wresp"})
              => /\ thr[t].prompt = expression_list[t]
                 /\ thr[t].pc = "wresp" => thr[t].response = expression_list[t]

\* C5 witness: in a parallel ForEach an iteration has resolved its prompt to
\* its own item while the loop-variable entry holds another iteration's item.
C5_Witness ==
    /\ TheForEach.is_parallel
    /\ \E t \in Iterations :
          /\ At(t, "invoke") /\ thr[t].prompt = expression_list[t]
          /\ <<"x">> \in DOMAIN memory
          /\ memory[<<"x">>] # JStr(expression_list[t])

\* C7: for a ForEach without a list-producing callable, any two resolutions
\* of the list that return (the later ones as in resumed runs over the same
\* namespace) return the identical ordered list, and from the start of the
\* first of them on the agent-driven computation runs at most once in total.
C7_Memoization ==
    /\ \A i, j \in 1..Len(hist.lists) : hist.lists[i] = hist.lists[j]
    /\ Len(hist.lists) >= 1 => hist.computes <= hist.mark + 1

\* C7 witness: the list was resolved twice, the same both times, with one
\* agent-driven computation.
C7_Witness ==
    /\ Len(hist.lists) = 2 /\ hist.computes = 1 /\ hist.calls = 2 /\ hist.mark = 0
    /\ hist.lists[1] = hist.lists[2] /\ Len(hist.lists[1]) > 1

\* C9: a Task's execute invokes the agent once, the response is written after
\* the invocation and the DONE witness after the response; so a witness
\* implies the response entry, and execute of a Task with a witness does not
\* invoke the agent.
C9_TaskOrder ==
    /\ [](\A q \in TaskQids :
             /\ HasWitness(q) => (q \o RESPONSE) \in DOMAIN files
             /\ Count(log, q).agent <= 1)
    /\ [](\A t \in Threads :
             (Running /\ thr[t].pc \in {"wresp", "wstatus"} /\ StepOf(t).kind = "Task")
                 => /\ Count(log, Qid(t)).agent = 1
                    /\ thr[t].pc = "wstatus" => (Qid(t) \o RESPONSE) \in DOMAIN files)
    /\ [][\A q \in TaskQids :
             Count(log', q).agent > Count(log, q).agent => ~HasWitness(q)]_vars

\* C9 witness: in a second run, execute of the Task s1 (witness and response
\* present) has returned without an agent invocation.
C9_Witness ==
    /\ run = 2 /\ At(0, "check") /\ thr[0].k = 2
    /\ HasWitness(<<"s", "1">>) /\ (<<"s", "1">> \o RESPONSE) \in DOMAIN files
    /\ Count(log, <<"s", "1">>).agent = 0

\* C10: in a sequential ForEach an iteration is inside _process_iteration
\* only when every earlier one has returned with its marker written and no
\* later one has started; each marked iteration has the response of its Task
\* under its own key, and the keys of different iterations differ.
C10_SequentialOrder ==
    ~TheForEach.is_parallel =>
        /\ \A k \in Iterations :
              (Running /\ InBody(k)) =>
                  /\ \A j \in 1..(k - 1) : thr[j].pc = "done" /\ HasMarker(IterationId(j))
                  /\ \A j \in Iterations : j > k => thr[j].pc \in {"idle", "wait"}
        /\ \A k \in Iterations :
              HasMarker(IterationId(k)) =>
                  Content(BodyTaskId(k) \o RESPONSE) = <<cfg.items[k]>>
        /\ \A j, k \in Iterations :
              j # k => BodyTaskId(j) \o RESPONSE # BodyTaskId(k) \o RESPONSE

\* C10 witness: the third iteration of a sequential ForEach is at its agent
\* call, the first two have returned.
C10_Witness ==
    /\ ~TheForEach.is_parallel /\ At(3, "invoke")
    /\ thr[1].pc = "done" /\ thr[2].pc = "done"
    /\ HasMarker(IterationId(1)) /\ HasMarker(IterationId(2))

----------------------------------------------------------------------------
(* replace_context_variables on its own: templates, override maps and stores *)

\* the process at rest, for the harnesses that do not run it
AtRest ==
    /\ cfg = [is_parallel |-> FALSE, code_skippable |-> FALSE, list_func |-> TRUE,
              items |-> <<>>, nprofiles |-> 1]
    /\ thr = [t \in Threads |-> IdleThread]
    /\ locks = [p \in 1..MaxProfiles |-> 0]
    /\ run = 0
    /\ phase = "idle"
    /\ expression_list = <<>>
    /\ current_step = 0
    /\ log = EmptyMap
    /\ hist = [calls |-> 0, computes |-> 0, mark |-> 0, lists |-> <<>>, stops |-> 0]

RECURSIVE Flatten(_)
Flatten(l) == IF l = <<>> THEN <<>> ELSE Head(l) \o Flatten(Tail(l))

\* templates: up to MaxTemplateLen pieces, each "${", a name or "}"
Pieces == {<<"$", "{">>, <<"a">>, <<"b">>, <<"}">>}
Templates == {Flatten(f) : f \in UNION {[1..n -> Pieces] : n \in 0..MaxTemplateLen}}
Names == {<<"a">>, <<"b">>}
\* override maps: a string for some of the names
OverrideMaps == UNION {[d -> {<<"p">>}] : d \in SUBSET Names}
\* stores: a string or a list of strings for some of the names
StoredValues == {JStr(<<"q">>), JList(<<JStr(<<"p">>), JStr(<<"q">>)>>)}
StoreMaps == UNION {[d -> StoredValues] : d \in SUBSET Names}

InitInterp ==
    /\ AtRest
    /\ store = <<>>
    /\ agent = <<>>
    /\ pool = <<>>
    /\ job = <<>> /\ loop = <<>>
    /\ mgr = <<>> /\ scale = <<>> /\ hook = <<>>
    /\ wkeys = <<>> /\ nest = <<>>
    /\ \E m \in StoreMaps :
          /\ memory = m
          /\ files = [k \in DOMAIN m |-> json_dumps(m[k])]
    /\ \E tpl \in Templates, ov \in OverrideMaps :
          inter = [pc |-> "start", template |-> tpl, prompt |-> tpl, vars |-> <<>>,
                   ov |-> ov, reads |-> {}, warnings |-> {}]

\* variables = re.findall(r'\${([^}]+)}', prompt)
InterpFindAll ==
    /\ inter # <<>> /\ inter.pc = "start"
    /\ inter' = [inter EXCEPT !.vars = FindAll(inter.prompt), !.pc = "loop"]
    /\ UNCHANGED <<memory, files, cfg, thr, locks, run, phase, expression_list,
                   current_step, log, hist, store, agent, pool, job, loop, mgr, scale, hook, wkeys, nest>>

\* a round of the loop for a variable of the override map
InterpOverride ==
    /\ inter # <<>> /\ inter.pc = "loop" /\ inter.vars # <<>>
    /\ Head(inter.vars) \in DOMAIN inter.ov
    /\ inter' = [inter EXCEPT
                    !.prompt = ReplaceFromOverride(@, Head(inter.vars), inter.ov),
                    !.vars = Tail(@)]
    /\ UNCHANGED <<memory, files, cfg, thr, locks, run, phase, expression_list,
                   current_step, log, hist, store, agent, pool, job, loop, mgr, scale, hook, wkeys, nest>>

\* a round of the loop for a variable the store has a value for
InterpSubstitute ==
    /\ inter # <<>> /\ inter.pc = "loop" /\ inter.vars # <<>>
    /\ LET var == Head(inter.vars) IN
          /\ var \notin DOMAIN inter.ov
          /\ HasEntry(Content(var))
          /\ StoreRead(var)
          /\ inter' = [inter EXCEPT
                          !.prompt = ReplaceFromMemory(@, var, Content(var)),
                          !.vars = Tail(@),
                          !.reads = @ \cup {var}]
    /\ UNCHANGED <<cfg, thr, locks, run, phase, expression_list, current_step,
                   log, hist, store, agent, pool, job, loop, mgr, scale, hook, wkeys, nest>>

\* a round of the loop for a variable without a value: logger.warning
InterpWarn ==
    /\ inter # <<>> /\ inter.pc = "loop" /\ inter.vars # <<>>
    /\ LET var == Head(inter.vars) IN
          /\ var \notin DOMAIN inter.ov
          /\ ~HasEntry(Content(var))
          /\ StoreRead(var)
          /\ inter' = [inter EXCEPT
                          !.prompt = ReplaceFromMemory(@, var, Content(var)),
                          !.vars = Tail(@),
                          !.reads = @ \cup {var},
                          !.warnings = @ \cup {var}]
    /\ UNCHANGED <<cfg, thr, locks, run, phase, expression_list, current_step,
                   log, hist, store, agent, pool, job, loop, mgr, scale, hook, wkeys, nest>>

\* return prompt
InterpReturn ==
    /\ inter # <<>> /\ inter.pc = "loop" /\ inter.vars = <<>>
    /\ inter' = [inter EXCEPT !.pc = "done"]
    /\ UNCHANGED <<memory, files, cfg, thr, locks, run, phase, expression_list,
                   current_step, log, hist, store, agent, pool, job, loop, mgr, scale, hook, wkeys, nest>>

NextInterp ==
    \/ InterpFindAll
    \/ InterpOverride
    \/ InterpSubstitute
    \/ InterpWarn
    \/ InterpReturn

SpecInterp == InitInterp /\ [][NextInterp]_vars

\* what the claim gives for the placeholder of `name`: the override value,
\* else the stored value (all of it), else the placeholder itself
Substituted(name, ov, fl) ==
    IF name \in DOMAIN ov THEN ov[name]
    ELSE IF name \in DOMAIN fl
    THEN process_context_memory_return_value(ToContent(json_loads(fl[name])))
    ELSE Placeholder(name)

RECURSIVE ExpectedFrom(_, _, _, _)
\* the template with each placeholder, from left to right, given its value
ExpectedFrom(s, i, ov, fl) ==
    IF i > Len(s) THEN <<>>
    ELSE IF i + 3 <= Len(s) /\ s[i] = "$" /\ s[i + 1] = "{" /\ s[i + 2] # "}"
            /\ FirstClose(s, i + 3) # 0
         THEN Substituted(Slice(s, i + 2, FirstClose(s, i + 3) - 1), ov, fl)
              \o ExpectedFrom(s, FirstClose(s, i + 3) + 1, ov, fl)
         ELSE <<s[i]>> \o ExpectedFrom(s, i + 1, ov, fl)

\* C6 as stated: when replace_context_variables returns, every placeholder
\* ${a} of the template stands replaced by the override value of a, the store
\* not having been read for a; else by the stored value of a; and is left as
\* it was, with a warning, when a is in neither.
C6_InterpolationTotality ==
    (inter # <<>> /\ inter.pc = "done") =>
        /\ inter.prompt = ExpectedFrom(inter.template, 1, inter.ov, files)
        /\ \A i \in 1..Len(FindAll(inter.template)) :
              LET a == FindAll(inter.template)[i] IN
                /\ a \in DOMAIN inter.ov => a \notin inter.reads
                /\ (a \notin DOMAIN inter.ov /\ a \notin DOMAIN files)
                      => a \in inter.warnings

----------------------------------------------------------------------------
(* The context-memory store on its own: calls of its tools and restarts *)

\* keys: a plain one, a hidden one (skipped by the startup load), one whose
\* path lies in a subdirectory that does not exist, and the empty one
StoreKeys == {<<"k">>, <<".", "h">>, <<"d", "/", "k">>, <<>>}
\* a nested value with strings that need escaping
NestedValue ==
    JObj(<< <<<<"n", "\"">>, JList(<<JStr(<<"a", "\\", "\"">>), JNum(7), JObj(<<>>)>>)>>,
            <<<<"m">>, JNull>> >>)
StoreValues ==
    {JStr(<<"a">>), JStr(<<"\"", "\\">>), JNum(7), JNull,
     JList(<<JStr(<<"\\">>), JBool(TRUE)>>), NestedValue}
\* arguments of the batched calls: two different keys
KeyPairs == {ks \in [1..2 -> StoreKeys] : ks[1] # ks[2]}
EntryPairs == {<<<<ks[1], JStr(<<"a">>)>>, <<ks[2], NestedValue>>>> : ks \in KeyPairs}

InitStore ==
    /\ AtRest
    /\ inter = <<>>
    /\ agent = <<>>
    /\ pool = <<>>
    /\ job = <<>> /\ loop = <<>>
    /\ mgr = <<>> /\ scale = <<>> /\ hook = <<>>
    /\ wkeys = <<>> /\ nest = <<>>
    /\ memory = EmptyMap
    /\ files = EmptyMap
    /\ store = [ops |-> 0, op |-> "start", durable |-> EmptyMap, restarts |-> 0,
                got |-> <<>>, call |-> "", keys |-> <<>>]

\* the harness record after a call of the tool `call` with the keys `keys`
Called(call, keys, raised) ==
    [store EXCEPT !.ops = @ + 1, !.call = call, !.keys = keys,
                  !.op = IF raised THEN "raise" ELSE call]

NotStore == <<cfg, thr, locks, run, phase, expression_list, current_step, log,
              hist, inter, agent, pool, job, loop, mgr, scale, hook, wkeys, nest>>

\* add_or_update_memory_entry(k, v): the cache is assigned, then the file is
\* written; when the file cannot be opened the call raises with the cache
\* already assigned
StoreAddOrUpdate ==
    /\ store # <<>> /\ store.ops < MaxStoreOps
    /\ \E k \in StoreKeys, v \in StoreValues :
          /\ StoreWrite(k, v)
          /\ store' = [Called("write", <<k>>, ~Writable(k)) EXCEPT
                          !.durable = IF Writable(k) THEN Put(@, k, v) ELSE @]
    /\ UNCHANGED NotStore

RECURSIVE Persisted(_, _)
\* the entries of a batch that reached their files
Persisted(d, es) ==
    IF es = <<>> \/ ~Writable(Head(es)[1]) THEN d
    ELSE Persisted(Put(d, Head(es)[1], Head(es)[2]), Tail(es))

\* add_or_update_memory_entries(entries_dict)
StoreAddOrUpdateEntries ==
    /\ store # <<>> /\ store.ops < MaxStoreOps
    /\ \E es \in EntryPairs :
          LET w == write_many(memory, files, es) IN
          /\ memory' = w.mem
          /\ files' = w.fl
          /\ store' = [Called("writemany", <<es[1][1], es[2][1]>>, w.raised) EXCEPT
                          !.durable = Persisted(@, es)]
    /\ UNCHANGED NotStore

\* read_memory_entry(k)
StoreReadEntry ==
    /\ store # <<>> /\ store.ops < MaxStoreOps
    /\ \E k \in StoreKeys :
          IF read_raises(memory, files, k)
          THEN /\ UNCHANGED <<memory, files>>
               /\ store' = Called("read", <<k>>, TRUE)
          ELSE /\ StoreRead(k)
               /\ store' = [Called("read", <<k>>, FALSE) EXCEPT
                               !.got = <<k, read_value(memory, files, k)>>]
    /\ UNCHANGED NotStore

\* read_memory_entries(keys)
StoreReadEntries ==
    /\ store # <<>> /\ store.ops < MaxStoreOps
    /\ \E ks \in KeyPairs :
          LET r == read_many(memory, files, ks, EmptyMap) IN
          /\ memory' = r.mem
          /\ UNCHANGED files
          /\ store' = [Called("readmany", ks, r.raised) EXCEPT
                          !.got = IF r.raised THEN @ ELSE r.result]
    /\ UNCHANGED NotStore

\* delete_memory_entry(k): the cache entry goes, then the file
StoreDelete ==
    /\ store # <<>> /\ store.ops < MaxStoreOps
    /\ \E k \in StoreKeys :
          /\ memory' = Drop(memory, k)
          /\ files' = Drop(files, k)
          /\ store' = [Called("delete", <<k>>, delete_raises(k)) EXCEPT
                          !.durable = Drop(@, k)]
    /\ UNCHANGED NotStore

\* the store's process ends and a new one starts: __main__ loads the directory
StoreRestart ==
    /\ store # <<>> /\ store.ops < MaxStoreOps
    /\ memory' = startup_load(files)
    /\ store' = [Called("restart", <<>>, FALSE) EXCEPT !.restarts = @ + 1]
    /\ UNCHANGED <<files, NotStore>>

NextStore ==
    \/ StoreAddOrUpdate
    \/ StoreAddOrUpdateEntries
    \/ StoreReadEntry
    \/ StoreReadEntries
    \/ StoreDelete
    \/ StoreRestart

SpecStore == InitStore /\ [][NextStore]_vars

\* a call of one of the tools `calls` is made in this step
StoreCalls(calls) ==
    store # <<>> /\ store' # <<>> /\ store'.ops = store.ops + 1 /\ store'.call \in calls

\* the value the read call of this step reported for the key k
Reported(k) == IF store'.call = "read" THEN store'.got[2] ELSE store'.got[k]

\* C14 as stated: a read, single or batched, of a key that has no cache entry
\* and no backing file does not raise, reports the absent sentinel for the
\* key, and leaves the key without cache entry and without file.
C14_AbsentRead ==
    [][StoreCalls({"read", "readmany"}) =>
          \A i \in 1..Len(store'.keys) :
              LET k == store'.keys[i] IN
              (k \notin DOMAIN memory /\ k \notin DOMAIN files) =>
                  /\ store'.op # "raise"
                  /\ Reported(k) = JStr(NO_ENTRY)
                  /\ k \notin DOMAIN memory' /\ k \notin DOMAIN files']_vars

\* the cache holds for k nothing but what the file of k holds
Agree(mem, fl, k) == k \in DOMAIN mem => (k \in DOMAIN fl /\ json_loads(fl[k]) = mem[k])

\* C15 as stated: when a write call, single or batched, raises because a file
\* cannot be written, the cache and the backing file of each of its keys
\* agree after the call if they did before it.
C15_FailedWriteAtomic ==
    [][(StoreCalls({"write", "writemany"}) /\ store'.op = "raise") =>
          \A i \in 1..Len(store'.keys) :
              LET k == store'.keys[i] IN
              Agree(memory, files, k) => Agree(memory', files', k)]_vars

\* C29 as stated: after startup and after every call of the store's tools the
\* keys list returns are the non-hidden files of the backing directory, and
\* every cached value is the JSON content of its file.
C29_StoreConsistent ==
    store # <<>> =>
        /\ list_memory_entries(memory) = {k \in DOMAIN files : ~IsHidden(k)}
        /\ \A k \in DOMAIN memory :
              k \in DOMAIN files /\ json_loads(files[k]) = memory[k]

\* C8: after a restart of the store, a read of any key gives the value last
\* written under it (nested values too), structurally equal: so does the
\* value a read call has just returned.
C8_RoundTrip ==
    (store # <<>> /\ store.restarts >= 1) =>
        /\ \A k \in DOMAIN store.durable :
              read_value(memory, files, k) = store.durable[k]
        /\ (store.op = "read" /\ store.got[1] \in DOMAIN store.durable)
              => store.got[2] = store.durable[store.got[1]]

\* C8 witness: the nested value was written under the hidden key, the store
\* restarted, and the read that followed returned the value.
C8_Witness ==
    /\ store # <<>> /\ store.op = "read" /\ store.restarts = 1 /\ store.ops = 3
    /\ store.got = <<<<".", "h">>, NestedValue>>
    /\ store.durable = Put(EmptyMap, <<".", "h">>, NestedValue)

----------------------------------------------------------------------------
(* Profiles of the parallel iterations *)

\* C11: in a parallel ForEach over P profiles the iteration at 0-based list
\* position i runs with profiles[i mod P], and every agent built by a body
\* step of that iteration is built with that profile.
C11_RoundRobin ==
    (Running /\ TheForEach.is_parallel) =>
        \A t \in Iterations :
            thr[t].pc # "idle" =>
                /\ thr[t].profile - 1 = (t - 1) % cfg.nprofiles
                /\ thr[t].agent # 0 => thr[t].agent - 1 = (t - 1) % cfg.nprofiles

\* C11 witness: with two profiles the third item's Task has built its agent
\* with the first profile while the second item's has built its with the
\* second.
C11_Witness ==
    /\ TheForEach.is_parallel /\ cfg.nprofiles = 2
    /\ At(3, "invoke") /\ thr[3].agent = 1
    /\ At(2, "invoke") /\ thr[2].agent = 2
    /\ thr[1].pc = "done"

----------------------------------------------------------------------------
(* ConverseAgent: invoke and _handle_response *)

\* None
None == JNull

\* a pair of response_output_tags
START_TAG == "<"
END_TAG == ">"

\* re.search(f"(?s).*{start}(.*?){end}", text): group 1 of the match, the
\* text when nothing matches. The greedy prefix takes the last start tag that
\* has an end tag after it, the lazy group stops at the first end tag
Trim(text) ==
    LET starts == {i \in 1..Len(text) :
                      text[i] = START_TAG /\ \E j \in (i + 1)..Len(text) : text[j] = END_TAG}
    IN  IF starts = {} THEN text
        ELSE LET i == CHOOSE x \in starts : \A y \in starts : y <= x
                 j == CHOOSE x \in (i + 1)..Len(text) :
                         text[x] = END_TAG /\ \A y \in (i + 1)..(x - 1) : text[y] # END_TAG
             IN  Slice(text, i + 1, j - 1)

\* texts of a model turn
Texts == {<<"a">>, <<"<", "b", ">">>, <<"<", "a", ">", "<", "b", ">", "c">>, <<"b", "<">>}
\* tools a model turn asks for: a registered one, one that is not registered,
\* a registered one whose call fails
ToolNames == {"known", "unknown", "faulty"}
ToolRequests == UNION {[1..n -> ToolNames] : n \in 1..2}
\* responses of the completion endpoint
Responses ==
    [stopReason : {"end_turn", "stop_sequence"}, text : Texts, tools : {<<>>}]
    \cup [stopReason : {"tool_use"}, text : {<<>>}, tools : ToolRequests]
    \cup [stopReason : {"max_tokens", "content_filtered"}, text : {<<"a">>}, tools : {<<>>}]

\* content items of a user turn
TextItem(s) == [k |-> "text", v |-> s]
ToolResultItem(name) == [k |-> "toolResult", v |-> name]
ErrorItem(name) == [k |-> "Error", v |-> name]

\* json.dumps(content, indent=2) of invoke's first line succeeds: an item
\* holding an exception object cannot be serialized
Serializable(content) == \A i \in 1..Len(content) : content[i].k # "Error"

\* invoke_with_prompt is called on a fresh agent
InitAgent ==
    /\ AtRest
    /\ memory = EmptyMap /\ files = EmptyMap
    /\ inter = <<>> /\ store = <<>> /\ pool = <<>> /\ job = <<>> /\ loop = <<>>
    /\ mgr = <<>> /\ scale = <<>> /\ hook = <<>>
    /\ wkeys = <<>> /\ nest = <<>>
    /\ \E tags \in BOOLEAN :
          agent = [pc |-> "invoke", tags |-> tags, stack |-> <<>>,
                   content |-> <<TextItem(<<"p">>)>>, messages |-> <<>>,
                   response |-> <<>>, value |-> None, turns |-> 0, retries |-> 0,
                   final |-> <<>>, unknown |-> FALSE, fault |-> "", slept |-> 0]

NotAgent == <<memory, files, cfg, thr, locks, run, phase, expression_list,
            current_step, log, hist, inter, store, pool, job, loop, mgr, scale, hook, wkeys, nest>>

\* the fault leaves invoke and every invoke that called it
Raise(a, fault) == [a EXCEPT !.pc = "raised", !.stack = <<>>, !.fault = fault]

\* invoke: the content is logged as JSON, then appended as a user turn
AgentInvoke ==
    /\ agent # <<>> /\ agent.pc = "invoke"
    /\ agent' = IF Serializable(agent.content)
                THEN [agent EXCEPT
                         !.messages = Append(@, [role |-> "user", content |-> agent.content]),
                         !.pc = "call"]
                ELSE Raise(agent, "TypeError")
    /\ UNCHANGED NotAgent

\* time.sleep(5) of invoke and time.sleep(10) of the 'max_tokens' branch
RETRY_DELAY == 5
CONTINUE_DELAY == 10

\* a retry that goes through invoke again: the user turn is appended again
ModelTransientFaultReinvoke ==
    /\ agent # <<>> /\ agent.pc = "call" /\ agent.retries < MaxTurns
    /\ agent' = [agent EXCEPT !.retries = @ + 1, !.slept = @ + RETRY_DELAY,
                              !.messages = Append(@, [role |-> "user", content |-> agent.content])]
    /\ UNCHANGED NotAgent

\* invoke: ThrottlingException or ModelTimeoutException; sleep and call again
ModelTransientFault ==
    /\ agent # <<>> /\ agent.pc = "call" /\ agent.retries < MaxTurns
    /\ agent' = [agent EXCEPT !.retries = @ + 1, !.slept = @ + RETRY_DELAY]
    /\ UNCHANGED NotAgent

\* the fault the caller of the outermost invoke sees: the 'tool_use' branch
\* wraps every fault of its nested invoke in a ValueError
Propagated(stack, fault) ==
    IF \E i \in 1..Len(stack) : stack[i] = "tool" THEN "ValueError" ELSE fault

\* invoke: any other exception of the completion call propagates
ModelFault ==
    /\ agent # <<>> /\ agent.pc = "call"
    /\ agent' = Raise(agent, Propagated(agent.stack, "ClientError"))
    /\ UNCHANGED NotAgent

\* invoke: _get_converse_response returns a response
ModelResponds ==
    /\ agent # <<>> /\ agent.pc = "call" /\ agent.turns < MaxTurns
    /\ \E r \in Responses :
          agent' = [agent EXCEPT !.response = r, !.turns = @ + 1, !.pc = "handle"]
    /\ UNCHANGED NotAgent

\* the response is appended to the transcript (first line of _handle_response)
Heard(a) == [a EXCEPT !.messages = Append(@, [role |-> "assistant", content |-> a.response])]

\* _handle_response, 'end_turn' or 'stop_sequence': the text is returned,
\* trimmed to the tags when there are two
HandleEndTurn ==
    /\ agent # <<>> /\ agent.pc = "handle"
    /\ agent.response.stopReason \in {"end_turn", "stop_sequence"}
    /\ agent' = [Heard(agent) EXCEPT
                    !.value = JStr(IF agent.tags THEN Trim(agent.response.text)
                                   ELSE agent.response.text),
                    !.final = agent.response.text,
                    !.pc = "unwind"]
    /\ UNCHANGED NotAgent

\* the result item of one requested tool: an unknown tool's ValueError is kept
\* as an {'Error': e} item
DispatchItem(name) == IF name = "unknown" THEN ErrorItem(name) ELSE ToolResultItem(name)

\* _handle_response, 'tool_use': every requested tool is executed, invoke is
\* called with the results and its value returned; a fault of a tool other
\* than its being unknown is raised as ValueError("Failed to execute tool")
HandleToolUse ==
    /\ agent # <<>> /\ agent.pc = "handle" /\ agent.response.stopReason = "tool_use"
    /\ LET tools == agent.response.tools IN
       agent' = IF \E i \in 1..Len(tools) : tools[i] = "faulty"
                THEN Raise(Heard(agent), "ValueError")
                ELSE [Heard(agent) EXCEPT
                         !.content = [i \in 1..Len(tools) |-> DispatchItem(tools[i])],
                         !.unknown = \E i \in 1..Len(tools) : tools[i] = "unknown",
                         !.stack = Append(@, "tool"),
                         !.pc = "invoke"]
    /\ UNCHANGED NotAgent

\* _handle_response, 'max_tokens': sleep, then invoke_with_prompt('Please
\* continue.') is awaited and its value dropped
HandleMaxTokens ==
    /\ agent # <<>> /\ agent.pc = "handle" /\ agent.response.stopReason = "max_tokens"
    /\ agent' = [Heard(agent) EXCEPT
                    !.content = <<TextItem(<<"c">>)>>,
                    !.slept = @ + CONTINUE_DELAY,
                    !.stack = Append(@, "cont"),
                    !.pc = "invoke"]
    /\ UNCHANGED NotAgent

\* _handle_response, any other stop reason: ValueError("Unknown stop reason")
HandleOtherStop ==
    /\ agent # <<>> /\ agent.pc = "handle"
    /\ agent.response.stopReason \notin {"end_turn", "stop_sequence", "tool_use", "max_tokens"}
    /\ agent' = Raise(Heard(agent), "ValueError")
    /\ UNCHANGED NotAgent

\* what the invoke that made a nested call returns once the call has returned
\* v: the 'tool_use' branch returns v, the 'max_tokens' branch falls off the
\* end of the function
Passed(frame, v) == IF frame = "tool" THEN v ELSE None

\* a nested invoke returns to the _handle_response that called it
AgentUnwind ==
    /\ agent # <<>> /\ agent.pc = "unwind" /\ agent.stack # <<>>
    /\ agent' = [agent EXCEPT
                    !.value = Passed(agent.stack[Len(agent.stack)], @),
                    !.stack = SubSeq(@, 1, Len(@) - 1)]
    /\ UNCHANGED NotAgent

\* the outermost invoke returns to its caller
AgentReturn ==
    /\ agent # <<>> /\ agent.pc = "unwind" /\ agent.stack = <<>>
    /\ agent' = [agent EXCEPT !.pc = "returned"]
    /\ UNCHANGED NotAgent

NextAgent ==
    \/ AgentInvoke
    \/ ModelTransientFault
    \/ ModelFault
    \/ ModelResponds
    \/ HandleEndTurn
    \/ HandleToolUse
    \/ HandleMaxTokens
    \/ HandleOtherStop
    \/ AgentUnwind
    \/ AgentReturn

SpecAgent == InitAgent /\ [][NextAgent]_vars

\* C12 as stated: the value invoke returns to its caller is the text of the
\* end-of-turn response that ended it (trimmed to the tags when they are
\* set), whatever tool rounds and length-limit continuations came before.
C12_ReturnsFinalText ==
    (agent # <<>> /\ agent.pc = "returned") =>
        agent.value = JStr(IF agent.tags THEN Trim(agent.final) ELSE agent.final)

\* C13 as stated: after a dispatch in which the only tool faults were
\* unknown-tool faults, the invoke that follows appends the results (the
\* error result among them) as the next user turn and the agent is back at
\* the model call; nothing is raised.
C13_UnknownToolRecovered ==
    [][(agent # <<>> /\ agent.pc = "invoke" /\ agent.unknown)
          => /\ agent'.pc = "call"
             /\ agent'.messages[Len(agent'.messages)]
                   = [role |-> "user", content |-> agent.content]]_vars


-----------------------------------------------------------------------------
(* Process.run and the tool client pool (MCPClients): the servers are
   started one by one, the inputs are seeded, the steps are executed and the
   pool is torn down.  A channel is one MCPClient: its stdio transport
   (_client) and the session on top of it. *)

MaxServers == 2
MaxSteps == 2

\* what a raise statement or an interruption can deliver to the handler
FaultKinds == {"Exception", "BaseException"}

\* the stage of MCPClient.connect that raises
ConnectStages == {"spawn", "session", "initialize"}

\* the stage of MCPClient.__aexit__ that raises
CloseStages == {"session", "transport"}

\* the nesting depth of the step that raises (0: a step of the process)
Depths == 0..1

SeedCounts == 0..Len(Inputs)

Reverse(s) == [k \in 1..Len(s) |-> s[Len(s) + 1 - k]]

InitPool ==
    /\ AtRest
    /\ memory = EmptyMap /\ files = EmptyMap
    /\ inter = <<>> /\ store = <<>> /\ agent = <<>> /\ job = <<>> /\ loop = <<>>
    /\ mgr = <<>> /\ scale = <<>> /\ hook = <<>>
    /\ wkeys = <<>> /\ nest = <<>>
    /\ \E n \in 1..MaxServers, inputs \in SeedCounts, steps \in 1..MaxSteps :
          pool = [pc |-> "enter", n |-> n, inputs |-> inputs, steps |-> steps,
                  i |-> 1,
                  transport |-> [s \in 1..n |-> "none"],
                  session |-> [s \in 1..n |-> "none"],
                  opened |-> <<>>, closed |-> <<>>,
                  seeded |-> 0, executed |-> <<>>, failed |-> 0,
                  exc |-> "none", depth |-> 0, returned |-> "no"]

NotPool == <<memory, files, cfg, thr, locks, run, phase, expression_list,
            current_step, log, hist, inter, store, agent, job, loop, mgr, scale, hook, wkeys, nest>>

PoolAt(pc) == pool # <<>> /\ pool.pc = pc

\* MCPClients.__aenter__: the next client connects
ConnectOk ==
    /\ PoolAt("enter")
    /\ pool' = [pool EXCEPT !.transport[pool.i] = "open",
                            !.session[pool.i] = "open",
                            !.opened = Append(@, pool.i),
                            !.i = @ + 1,
                            !.pc = IF pool.i = pool.n THEN "tools" ELSE "enter"]
    /\ UNCHANGED NotPool

\* connect raises: __aenter__ of the pool raises, so the body of the
\* 'async with' is not entered and __aexit__ is not called
ConnectFault ==
    /\ PoolAt("enter")
    /\ \E stage \in ConnectStages, kind \in FaultKinds :
          pool' = [pool EXCEPT
                      !.transport[pool.i] = IF stage = "spawn" THEN "created" ELSE "open",
                      !.session[pool.i] = IF stage = "initialize" THEN "open" ELSE "none",
                      !.opened = IF stage = "spawn" THEN @ ELSE Append(@, pool.i),
                      !.exc = kind,
                      !.pc = "except"]
    /\ UNCHANGED NotPool

\* the position after get_available_tools and after each seeded input
AfterSeed(seeded, inputs) == IF seeded = inputs THEN "steps" ELSE "seed"

\* a fault in the body of the 'async with' starts the teardown
BodyFault(p, kind) == [p EXCEPT !.exc = kind, !.pc = "exit", !.i = 1]

GetTools ==
    /\ PoolAt("tools")
    /\ pool' = [pool EXCEPT !.pc = AfterSeed(0, pool.inputs), !.i = 1]
    /\ UNCHANGED NotPool

GetToolsFault ==
    /\ PoolAt("tools")
    /\ \E kind \in FaultKinds : pool' = BodyFault(pool, kind)
    /\ UNCHANGED NotPool

PoolSeedInput ==
    /\ PoolAt("seed")
    /\ pool' = [pool EXCEPT !.seeded = @ + 1,
                            !.pc = AfterSeed(pool.seeded + 1, pool.inputs)]
    /\ UNCHANGED NotPool

SeedFault ==
    /\ PoolAt("seed")
    /\ \E kind \in FaultKinds : pool' = BodyFault(pool, kind)
    /\ UNCHANGED NotPool

\* step.execute returns; after the last step the body ends
StepExecute ==
    /\ PoolAt("steps")
    /\ pool' = [pool EXCEPT !.executed = Append(@, pool.i),
                            !.i = IF pool.i = pool.steps THEN 1 ELSE @ + 1,
                            !.pc = IF pool.i = pool.steps THEN "exit" ELSE "steps"]
    /\ UNCHANGED NotPool

\* a step, or a step nested in it, raises
StepFault ==
    /\ PoolAt("steps")
    /\ \E kind \in FaultKinds, depth \in Depths :
          pool' = [pool EXCEPT !.executed = Append(@, pool.i),
                               !.failed = pool.i,
                               !.exc = kind,
                               !.depth = depth,
                               !.pc = "unwind"]
    /\ UNCHANGED NotPool

\* no step has a handler: the fault leaves each enclosing execute
StepUnwind ==
    /\ PoolAt("unwind")
    /\ pool' = IF pool.depth > 0
               THEN [pool EXCEPT !.depth = @ - 1]
               ELSE BodyFault(pool, pool.exc)
    /\ UNCHANGED NotPool

\* after the teardown: the fault of the body is raised again, if any
AfterExit(p) == IF p.exc = "none" THEN "return" ELSE "except"

\* MCPClients.__aexit__: the next client, in the order of the list, closes
\* its session and then its transport
CloseOk ==
    /\ PoolAt("exit")
    /\ pool' = [pool EXCEPT
                   !.session[pool.i] = IF @ = "open" THEN "closed" ELSE @,
                   !.transport[pool.i] = IF @ = "none" THEN @ ELSE "closed",
                   !.closed = Append(@, pool.i),
                   !.i = @ + 1,
                   !.pc = IF pool.i = pool.n THEN AfterExit(pool) ELSE "exit"]
    /\ UNCHANGED NotPool

\* closing raises: the loop of __aexit__ is left, the later clients are not
\* closed
CloseFault ==
    /\ PoolAt("exit")
    /\ \E stage \in CloseStages, kind \in FaultKinds :
          pool' = [pool EXCEPT
                      !.session[pool.i] = IF stage = "transport" THEN "closed" ELSE @,
                      !.exc = kind,
                      !.pc = "except"]
    /\ UNCHANGED NotPool

CaughtException(kind) == kind = "Exception"

\* the bare 'except:' of run
Caught(kind) == TRUE

Except ==
    /\ PoolAt("except")
    /\ pool' = IF Caught(pool.exc)
               THEN [pool EXCEPT !.exc = "none", !.pc = "return"]
               ELSE [pool EXCEPT !.pc = "done", !.returned = "raised"]
    /\ UNCHANGED NotPool

RunReturn ==
    /\ PoolAt("return")
    /\ pool' = [pool EXCEPT !.pc = "done", !.returned = "normal"]
    /\ UNCHANGED NotPool

NextPool ==
    \/ ConnectOk
    \/ ConnectFault
    \/ GetTools
    \/ GetToolsFault
    \/ PoolSeedInput
    \/ SeedFault
    \/ StepExecute
    \/ StepFault
    \/ StepUnwind
    \/ CloseOk
    \/ CloseFault
    \/ Except
    \/ RunReturn

SpecPool == InitPool /\ [][NextPool]_vars

\* C16: when the pool has been torn down, every channel that was opened is
\* closed and the channels were closed in the reverse order of their
\* acquisition, also after a fault in the run or while closing a channel.
C16_ReverseTeardown ==
    PoolAt("done") => pool.closed = Reverse(pool.opened)

\* C17: when run has returned and at least one tool server was started,
\* every started tool server has been closed, on every path.
C17_TeardownUnconditional ==
    PoolAt("done") => \A s \in 1..pool.n :
                          pool.transport[s] # "none" => pool.transport[s] = "closed"

\* C18: a fault raised anywhere in run is caught inside run: run returns
\* normally, and no step after the failing one is executed.
C18_FaultCaught ==
    /\ PoolAt("done") => pool.returned = "normal"
    /\ (pool # <<>> /\ pool.failed # 0) =>
           \A k \in 1..Len(pool.executed) : pool.executed[k] <= pool.failed

C18_Witness ==
    /\ PoolAt("done") /\ pool.returned = "normal"
    /\ pool.failed = 1 /\ pool.steps = 2 /\ pool.executed = <<1>>


-----------------------------------------------------------------------------
(* process_issue: one queue message is processed by the worker.  An account
   is acquired, the workflow runs, the result is uploaded, the comment is
   posted, the message is deleted and the account is released. *)

\* the number of attempts of acquire_account_with_retries
MAX_ACCOUNT_ACQUIRE_RETRIES == 60

\* base and cap, in seconds, of the delay between two attempts
ACCOUNT_ACQUIRE_RETRY_DELAY_BASE == 10
ACCOUNT_ACQUIRE_RETRY_DELAY_MAX == 60

\* random.random() draws from [0, 1); the draws of the model are the
\* multiples j / JitterParts of that interval, and a delay is counted in
\* units of 1 / JitterParts of a second
JitterHalf == 2
JitterParts == 2 * JitterHalf
Jitter == 0..(JitterParts - 1)

RECURSIVE Pow2(_)
Pow2(n) == IF n = 0 THEN 1 ELSE 2 * Pow2(n - 1)

\* min(ACCOUNT_ACQUIRE_RETRY_DELAY_BASE * (2 ** (retries // 3)),
\*     ACCOUNT_ACQUIRE_RETRY_DELAY_MAX)
Backoff(retries) ==
    LET d == ACCOUNT_ACQUIRE_RETRY_DELAY_BASE * Pow2(retries \div 3) IN
    IF d < ACCOUNT_ACQUIRE_RETRY_DELAY_MAX THEN d ELSE ACCOUNT_ACQUIRE_RETRY_DELAY_MAX

\* delay * (0.5 + random.random()), in units of 1 / JitterParts of a second
Delay(retries, j) == Backoff(retries) * (JitterHalf + j)

Accounts == {"A", "B"}
TaskIds == {"t1", "t2"}

\* a value that is false in a condition: None
Missing == ""

\* the steps of the process built by process()
RunSteps == 1..2

\* what retrieve_github_issue gives: a bug, another type of issue, or a
\* failed request
IssueKinds == {"bug", "other", "error"}

InitJob ==
    /\ AtRest
    /\ memory = EmptyMap /\ files = EmptyMap
    /\ inter = <<>> /\ store = <<>> /\ agent = <<>> /\ pool = <<>> /\ loop = <<>>
    /\ mgr = <<>> /\ scale = <<>> /\ hook = <<>>
    /\ wkeys = <<>> /\ nest = <<>>
    /\ \E valid \in BOOLEAN :
          job = [pc |-> "start", valid |-> valid, retries |-> 0,
                 calls |-> 0, asked |-> {}, delay |-> 0,
                 task_id |-> Missing, account_id |-> Missing,
                 step |-> 0, failed |-> 0, dir |-> FALSE,
                 uploaded |-> FALSE, commented |-> FALSE, deleted |-> FALSE,
                 released |-> <<>>, events |-> <<>>, pending |-> "none",
                 result |-> "none"]

NotJob == <<memory, files, cfg, thr, locks, run, phase, expression_list,
           current_step, log, hist, inter, store, agent, pool, loop, mgr, scale, hook, wkeys, nest>>

JobAt(pc) == job # <<>> /\ job.pc = pc

\* process_issue returns a value, or an exception leaves it
Done(j, result) == [j EXCEPT !.pc = "done", !.result = result]

\* a return or a raise inside the inner try: the finally clause runs first
Leave(j, how) == [j EXCEPT !.pc = "finally", !.pending = how]

\* the message is read; acquire_account_with_retries draws its task id
JobStart ==
    /\ JobAt("start")
    /\ \E t \in TaskIds :
          job' = IF job.valid
                 THEN [job EXCEPT !.pc = "acquire", !.task_id = t]
                 ELSE Done(job, "False")
    /\ UNCHANGED NotJob

\* acquire_account succeeds
AcquireOk ==
    /\ JobAt("acquire")
    /\ \E a \in Accounts :
          job' = [job EXCEPT !.account_id = a, !.pc = "process",
                             !.calls = @ + 1, !.asked = @ \cup {job.task_id}]
    /\ UNCHANGED NotJob

\* the attempt fails, the delay is slept, and the loop goes on
Missed(j, jitter) ==
    [j EXCEPT !.retries = @ + 1, !.calls = @ + 1, !.asked = @ \cup {j.task_id},
              !.delay = Delay(j.retries + 1, jitter)]

\* a loop that makes one attempt more than MAX_ACCOUNT_ACQUIRE_RETRIES
AcquireMissInclusive ==
    /\ JobAt("acquire")
    /\ \E jitter \in Jitter :
          job' = IF job.retries + 1 <= MAX_ACCOUNT_ACQUIRE_RETRIES
                 THEN Missed(job, jitter)
                 ELSE Done([Missed(job, jitter) EXCEPT !.task_id = Missing], "False")
    /\ UNCHANGED NotJob

\* no account is available: another attempt, or None after the last one
AcquireMiss ==
    /\ JobAt("acquire")
    /\ \E jitter \in Jitter :
          job' = IF job.retries + 1 < MAX_ACCOUNT_ACQUIRE_RETRIES
                 THEN Missed(job, jitter)
                 ELSE Done([Missed(job, jitter) EXCEPT !.task_id = Missing], "False")
    /\ UNCHANGED NotJob

\* process(): the issue is fetched; only a bug is run
FetchIssue ==
    /\ JobAt("process")
    /\ \E kind \in IssueKinds :
          job' = CASE kind = "bug" -> [job EXCEPT !.pc = "run", !.step = 1]
                   [] kind = "other" -> Leave(job, "SystemExit")
                   [] kind = "error" -> Leave(job, "Exception")
    /\ UNCHANGED NotJob

\* after Process.run: 'Successfully processed issue', then the upload
AfterRun(j) == [j EXCEPT !.pc = "upload", !.events = Append(@, "run")]

\* a step of the run completes; the first step creates the application
\* directory
RunStep ==
    /\ JobAt("run")
    /\ LET j == [job EXCEPT !.dir = @ \/ job.step = 1] IN
       job' = IF job.step + 1 \notin RunSteps
              THEN AfterRun(j)
              ELSE [j EXCEPT !.step = @ + 1]
    /\ UNCHANGED NotJob

\* a step of the run raises, with the directory written or not; run
\* catches the fault and returns, or the fault leaves process()
RunStepFault ==
    /\ JobAt("run")
    /\ \E kind \in FaultKinds, written \in BOOLEAN :
          LET j == [job EXCEPT !.failed = job.step, !.dir = @ \/ written] IN
          job' = IF Caught(kind)
                 THEN AfterRun(j)
                 ELSE Leave(j, IF kind = "Exception" THEN "Exception" ELSE "SystemExit")
    /\ UNCHANGED NotJob

\* upload_result_to_s3: None when the directory is missing or on an error
Upload ==
    /\ JobAt("upload")
    /\ \E ok \in BOOLEAN :
          job' = IF job.dir /\ ok
                 THEN [job EXCEPT !.uploaded = TRUE, !.pc = "comment",
                                  !.events = Append(@, "upload")]
                 ELSE Leave([job EXCEPT !.events = Append(@, "upload failed")], "False")
    /\ UNCHANGED NotJob

\* a comment whose failure is not looked at
CommentUnchecked ==
    /\ JobAt("comment")
    /\ \E ok \in BOOLEAN :
          job' = [job EXCEPT !.commented = ok, !.pc = "delete",
                             !.events = Append(@, IF ok THEN "comment" ELSE "comment failed")]
    /\ UNCHANGED NotJob

\* add_github_comment
Comment ==
    /\ JobAt("comment")
    /\ \E ok \in BOOLEAN :
          job' = IF ok
                 THEN [job EXCEPT !.commented = TRUE, !.pc = "delete",
                                  !.events = Append(@, "comment")]
                 ELSE Leave([job EXCEPT !.events = Append(@, "comment failed")], "False")
    /\ UNCHANGED NotJob

\* delete_message
DeleteMessage ==
    /\ JobAt("delete")
    /\ \E ok \in BOOLEAN :
          LET j == [job EXCEPT !.events = Append(@, "delete")] IN
          job' = IF ok
                 THEN Leave([j EXCEPT !.deleted = TRUE], "True")
                 ELSE Leave(j, "False")
    /\ UNCHANGED NotJob

ReleaseNever(account_id, task_id) == FALSE

\* `if account_id and task_id` of the finally clause
ReleaseGuard(account_id, task_id) == account_id # Missing /\ task_id # Missing

\* the finally clause releases the account; then the pending return takes
\* place, an Exception is turned into False, and a process exit goes on
Finally ==
    /\ JobAt("finally")
    /\ LET j == IF ReleaseGuard(job.account_id, job.task_id)
                THEN [job EXCEPT !.released =
                         Append(@, [account_id |-> job.account_id,
                                    task_id |-> job.task_id])]
                ELSE job
       IN job' = CASE job.pending = "Exception" -> Done(j, "False")
                   [] job.pending = "SystemExit" -> Done(j, "exit")
                   [] OTHER -> Done(j, job.pending)
    /\ UNCHANGED NotJob

NextJob ==
    \/ JobStart
    \/ AcquireOk
    \/ AcquireMiss
    \/ FetchIssue
    \/ RunStep
    \/ RunStepFault
    \/ Upload
    \/ Comment
    \/ DeleteMessage
    \/ Finally

SpecJob == InitJob /\ [][NextJob]_vars

\* every call of process_issue goes on: the invocations return and the
\* sleeps end
SpecJobLive == InitJob /\ [][NextJob]_vars /\ WF_vars(NextJob)


\* C19: when a step of the run for a queue message fails, process_issue
\* reports failure, the message is not deleted and no result comment is
\* posted.
C19_FailedRunNotAcknowledged ==
    (job # <<>> /\ job.failed # 0) =>
        /\ ~job.commented
        /\ ~job.deleted
        /\ job.pc = "done" => job.result = "False"

\* C20: once an account is acquired, release_account is invoked for that
\* account with the acquiring task id exactly once on every exit path of
\* process_issue.
C20_ReleaseOnce ==
    (job # <<>> /\ job.account_id # Missing) =>
        /\ Len(job.released) <= 1
        /\ job.pc = "done" =>
              job.released = <<[account_id |-> job.account_id, task_id |-> job.task_id]>>

C20_Witness ==
    /\ JobAt("done") /\ job.result = "exit"
    /\ job.account_id \in Accounts /\ Len(job.released) = 1


-----------------------------------------------------------------------------
(* The DONE witness of a step *)

StepQids ==
    {get_id(TopSteps[k].step_id, <<>>) : k \in 1..Len(TopSteps)}
        \cup {BodyTaskId(n) : n \in Iterations}

\* the DONE witness of q is not there before the step and is there after it
WitnessAppears(q) == ~HasWitness(q) /\ HasWitness(q)'

\* what actual_execute of the step of task t leaves when it has returned:
\* the response of a Task, the step names of the code step, the markers of
\* all iterations of the ForEach
ActualDone(t) ==
    LET s == StepOf(t) IN
    CASE s.kind = "Task" -> ResponseKey(s.step_id, ParentId(t)) \in DOMAIN files
      [] s.kind = "Code" -> current_step > 0 /\ {CURRENT_STEP, NEXT_STEP} \subseteq DOMAIN files
      [] OTHER -> \A n \in 1..Len(expression_list) : HasMarker(IterationId(n))

\* the run stops: by a fault or by an interruption
RunStops == Running /\ phase' \in {"failed", "crashed"}

\* C21: the DONE witness of a step is written only after its actual_execute
\* has returned; a fault or an interruption of the run writes no witness, and
\* an execute that finds no witness starts the step's work from its
\* beginning.
C21_WitnessAfterWork ==
    [][/\ \A q \in StepQids :
             WitnessAppears(q) =>
                 \E t \in Threads : At(t, "wstatus") /\ Qid(t) = q /\ ActualDone(t)
       /\ RunStops => files' = files
       /\ \A t \in Threads :
             (At(t, "check") /\ ~HasWitness(Qid(t)) /\ phase' = "running"
                  /\ thr'[t] # thr[t]) =>
                 /\ thr'[t].pc = ActualPc(StepOf(t).kind)
                 /\ WorkStarts(Qid(t))]_vars

\* C21 witness: the first run stopped inside the Task, which left no witness;
\* the second run is doing the Task's work again.
C21_Witness ==
    /\ run = 2 /\ hist.stops = 1 /\ At(0, "invoke") /\ thr[0].k = 1
    /\ ~HasWitness(<<"s", "1">>)
    /\ Count(log, <<"s", "1">>).work = 1


\* task t takes the first step of execute of a non-skippable step
RerunStep(t) ==
    /\ At(t, "check") /\ ~StepOf(t).skippable
    /\ phase' = "running" /\ thr'[t] # thr[t]

\* task 0 has gone past the top-level step k in this run
Past(k) ==
    /\ Running /\ thr[0].pc \notin {"idle", "enter", "seed"}
    /\ thr[0].k > k

\* C22: execute of a non-skippable step does the step's work on every call,
\* whether or not the DONE witness is present, and the witness is written
\* again when the work is done.
C22_NonSkippableReruns ==
    /\ [][\A t \in Threads :
             RerunStep(t) => /\ thr'[t].pc = ActualPc(StepOf(t).kind)
                             /\ WorkStarts(Qid(t))]_vars
    /\ [](\A k \in 1..Len(TopSteps) :
             (~TopSteps[k].skippable /\ Past(k)) =>
                 /\ Count(log, get_id(TopSteps[k].step_id, <<>>)).work = 1
                 /\ HasWitness(get_id(TopSteps[k].step_id, <<>>)))

\* C22 witness: the first run completed, so the code step has its witness;
\* the second run has done the code step again.
C22_Witness ==
    /\ run = 2 /\ hist.stops = 0 /\ ~cfg.code_skippable /\ Past(2)
    /\ Count(log, <<"c", "1">>).work = 1
    /\ Count(log, <<"s", "1">>).work = 0
    /\ HasWitness(<<"c", "1">>)


-----------------------------------------------------------------------------
(* The markers of the iterations *)

\* the marker key of the iteration at the 1-based list position n of the
\* ForEach f1, spelled out
MarkerKey(n) == <<"f", "1", "_", "_">> \o Str(n) \o ITERATION_STATUS

MarkerDone(n) ==
    MarkerKey(n) \in DOMAIN files /\ json_loads(files[MarkerKey(n)]) = JStr(DONE)

\* iteration t takes the first step of _process_iteration
IterationStarts(t) ==
    /\ At(t, "itercheck") /\ phase' = "running" /\ thr'[t] # thr[t]

\* C23: iteration n of a ForEach is tied to the marker key
\* <qid>__<n>_iteration_status of its 1-based list position in every run: an
\* iteration whose marker is "done" is skipped (no body step is executed, no
\* entry is rewritten), an iteration without a marker is executed, and no
\* marker is written under another key.
C23_StableIterationIds ==
    /\ [][\A t \in Iterations :
             IterationStarts(t) =>
                 IF MarkerDone(t)
                 THEN /\ files' = files /\ log' = log
                      /\ thr'[t] = IterationReturned(thr, t)[t]
                 ELSE /\ thr'[t].pc = "setvar"
                      /\ WorkStarts(IterationId(t))]_vars
    /\ [](\A k \in DOMAIN files :
             (Len(k) > Len(ITERATION_STATUS)
                /\ SubSeq(k, Len(k) - Len(ITERATION_STATUS) + 1, Len(k)) = ITERATION_STATUS)
             => \E n \in 1..Len(cfg.items) : k = MarkerKey(n))

\* C23 witness: a run resumed after an interruption has skipped one
\* iteration that was done before and is executing another one.
C23_Witness ==
    /\ run = 2 /\ hist.stops = 1 /\ Running /\ Len(expression_list) > 1
    /\ \E n, x \in 1..Len(expression_list) :
          /\ MarkerDone(n) /\ thr[n].pc = "done" /\ Count(log, IterationId(n)).work = 0
          /\ ~MarkerDone(x) /\ thr[x].pc = "invoke" /\ Count(log, IterationId(x)).work = 1


-----------------------------------------------------------------------------
(* The list of a ForEach that the agent did not store *)

\* <qid>_expression_list is neither cached nor in the backing directory
ListAbsent == ListKey \notin DOMAIN memory /\ ListKey \notin DOMAIN files

\* C24: when the ForEach has no list-producing callable and
\* <qid>_expression_list is still absent after the agent was asked to compute
\* it, the ForEach fails: the run ends, no iteration is executed, the ForEach
\* gets no DONE witness and every entry written before stays as it was.
C24_MissingListFatal ==
    [][(At(0, "listread") /\ ~cfg.list_func /\ ListAbsent /\ phase' # "crashed") =>
          /\ phase' = "failed"
          /\ files' = files
          /\ \A t \in Threads : thr'[t] = IdleThread
          /\ ~HasWitness(<<"f", "1">>)'
          /\ \A n \in Iterations : Count(log, IterationId(n)).work = 0]_vars

\* C24 witness: the first run did the Task and the code step, the agent
\* stored no list, and the run ended in failure with the witnesses of the
\* first two steps in place.
C24_Witness ==
    /\ run = 1 /\ phase = "failed" /\ hist.stops = 1 /\ hist.computes = 1
    /\ ~cfg.list_func /\ ListKey \notin DOMAIN files
    /\ HasWitness(<<"s", "1">>) /\ HasWitness(<<"c", "1">>)
    /\ ~HasWitness(<<"f", "1">>)


-----------------------------------------------------------------------------
(* Retries of the completion call *)

\* the agent is at the completion call and stays there: a retry
Retry == agent # <<>> /\ agent.pc = "call" /\ agent'.pc = "call"

\* the completion call raises a fault that leaves invoke
CallFails == agent # <<>> /\ agent.pc = "call" /\ agent'.pc = "raised"

\* C26: on a transient fault of the provider invoke waits the fixed delay and
\* calls again, however many transient faults came before, and the
\* transcript stays as it was: the user turn was appended once, before the
\* first attempt.  Any other fault of the completion call leaves invoke
\* without a retry.
C26_TransientRetry ==
    /\ [][/\ Retry => /\ agent'.messages = agent.messages
                      /\ agent'.retries = agent.retries + 1
                      /\ agent'.slept = agent.slept + RETRY_DELAY
          /\ CallFails => /\ agent'.retries = agent.retries
                          /\ agent'.slept = agent.slept
                          /\ agent'.fault \in {"ClientError", "ValueError"}]_vars
    /\ []((agent # <<>> /\ agent.pc = "call") =>
              /\ Len(agent.messages) = 2 * agent.turns + 1
              /\ agent.messages[Len(agent.messages)]
                    = [role |-> "user", content |-> agent.content])

\* C26 witness: the first completion call of an invoke has met two transient
\* faults in a row and is about to be made a third time.
C26_Witness ==
    /\ agent # <<>> /\ agent.pc = "call" /\ agent.turns = 0
    /\ agent.retries = 2 /\ agent.slept = 2 * RETRY_DELAY
    /\ Len(agent.messages) = 1


-----------------------------------------------------------------------------
(* The event loop and the iterations of a parallel ForEach.  The tasks of
   asyncio.gather share one thread: a task runs until it awaits something
   that suspends it, and only then can the loop run another task.  A tool
   call (await func(...), await execute_tool(...)) suspends the task; the
   completion call (self.client.converse) and time.sleep do not: they keep
   the thread. *)

LoopTasks == 1..MaxProfiles

\* the kinds of response of the completion call
StopReasons == {"end_turn", "tool_use", "max_tokens"}

InitLoop ==
    /\ AtRest
    /\ memory = EmptyMap /\ files = EmptyMap
    /\ inter = <<>> /\ store = <<>> /\ agent = <<>> /\ pool = <<>> /\ job = <<>>
    /\ mgr = <<>> /\ scale = <<>> /\ hook = <<>>
    /\ wkeys = <<>> /\ nest = <<>>
    /\ \E nprofiles \in 1..MaxProfiles :
          loop = [on |-> 0,
                  held |-> [p \in 1..MaxProfiles |-> 0],
                  task |-> [t \in LoopTasks |->
                               [pc |-> "lock", profile |-> ProfileIndex(t, nprofiles),
                                calls |-> 0, slept |-> 0]]]

NotLoop == <<memory, files, cfg, thr, locks, run, phase, expression_list,
            current_step, log, hist, inter, store, agent, pool, job,
            mgr, scale, hook, wkeys, nest>>

\* the thread of the loop is free: no task is running
LoopFree == loop # <<>> /\ loop.on = 0
\* task t is the running task, at pc
OnAt(t, pc) == loop # <<>> /\ loop.on = t /\ loop.task[t].pc = pc

\* _process_iteration_wrapper: the loop runs task t, which takes the lock of
\* its profile and goes on to its first tool call (the read of its marker)
LoopAcquire(t) ==
    /\ LoopFree /\ loop.task[t].pc = "lock"
    /\ LockFree(loop.held, loop.task[t].profile)
    /\ loop' = [loop EXCEPT !.on = t, !.held[loop.task[t].profile] = t,
                            !.task[t].pc = "run"]
    /\ UNCHANGED NotLoop

\* the running task awaits a tool call: it is suspended, the thread is free
LoopAwaitTool(t) ==
    /\ OnAt(t, "run")
    /\ loop' = [loop EXCEPT !.on = 0, !.task[t].pc = "tool"]
    /\ UNCHANGED NotLoop

\* the result of the tool call is there and the loop resumes the task, which
\* goes on to the completion call of invoke
LoopToolDone(t) ==
    /\ LoopFree /\ loop.task[t].pc = "tool"
    /\ loop.task[t].calls < MaxTurns
    /\ loop' = [loop EXCEPT !.on = t, !.task[t].pc = "call"]
    /\ UNCHANGED NotLoop

\* invoke: the completion call is throttled or times out; time.sleep(5)
LoopTransientFault(t) ==
    /\ OnAt(t, "call") /\ loop.task[t].slept < MaxTurns
    /\ loop' = [loop EXCEPT !.task[t].pc = "sleep", !.task[t].slept = @ + 1]
    /\ UNCHANGED NotLoop

\* time.sleep returns: the call is made again
LoopSleepEnds(t) ==
    /\ OnAt(t, "sleep")
    /\ loop' = [loop EXCEPT !.task[t].pc = "call"]
    /\ UNCHANGED NotLoop

\* the completion call returns: the text ends the step (the task goes on to
\* store it), tools are to be executed, or the length limit was hit
LoopResponds(t) ==
    /\ OnAt(t, "call")
    /\ \E stop \in StopReasons :
          loop' = [loop EXCEPT
                      !.task[t].calls = @ + 1,
                      !.task[t].pc = CASE stop = "end_turn" -> "store"
                                       [] stop = "tool_use" -> "run"
                                       [] stop = "max_tokens" -> "pause"]
    /\ UNCHANGED NotLoop

\* 'max_tokens': time.sleep(10) returns and invoke_with_prompt makes the next
\* completion call
LoopPauseEnds(t) ==
    /\ OnAt(t, "pause") /\ loop.task[t].calls < MaxTurns
    /\ loop' = [loop EXCEPT !.task[t].pc = "call"]
    /\ UNCHANGED NotLoop

\* the response and the marker are written (tool calls) and the iteration
\* returns: the lock of its profile is released
LoopFinish(t) ==
    /\ OnAt(t, "store")
    /\ loop' = [loop EXCEPT !.on = 0, !.task[t].pc = "done",
                            !.held[loop.task[t].profile] = 0]
    /\ UNCHANGED NotLoop

NextLoop ==
    \/ \E t \in LoopTasks : LoopAcquire(t)
    \/ \E t \in LoopTasks : LoopAwaitTool(t)
    \/ \E t \in LoopTasks : LoopToolDone(t)
    \/ \E t \in LoopTasks : LoopTransientFault(t)
    \/ \E t \in LoopTasks : LoopSleepEnds(t)
    \/ \E t \in LoopTasks : LoopResponds(t)
    \/ \E t \in LoopTasks : LoopPauseEnds(t)
    \/ \E t \in LoopTasks : LoopFinish(t)

SpecLoop == InitLoop /\ [][NextLoop]_vars

\* task t is inside a completion call, a sleep between retries or the pause
\* before a continuation
ModelWait(t) == loop.task[t].pc \in {"call", "sleep", "pause"}

\* task u has something to go on with: the result of its tool call, or the
\* lock of its profile, which is free
Resumable(u) ==
    \/ loop.task[u].pc = "tool" /\ loop.task[u].calls < MaxTurns
    \/ loop.task[u].pc = "lock" /\ loop.held[loop.task[u].profile] = 0

\* C25 as stated: while one parallel iteration waits for a model completion,
\* sleeps between retries or pauses before a continuation, an iteration of
\* another profile that has something to go on with can take its step.
C25_SuspensionPoints ==
    loop # <<>> =>
        \A t, u \in LoopTasks :
            (ModelWait(t) /\ loop.task[u].profile # loop.task[t].profile /\ Resumable(u))
                => ENABLED (LoopAcquire(u) \/ LoopToolDone(u))


-----------------------------------------------------------------------------
(* replace_context_variables over values that themselves hold placeholders *)

MaxPlaceholders == 3

\* templates: up to MaxPlaceholders pieces, each a placeholder or a letter
ExpandPieces == {Placeholder(<<"a">>), Placeholder(<<"b">>), <<"x">>}
ExpandTemplates ==
    {Flatten(f) : f \in UNION {[1..n -> ExpandPieces] : n \in 0..MaxPlaceholders}}
\* values: a plain text, or a text that is the placeholder of a name
ExpandValues == {<<"p">>, Placeholder(<<"a">>), Placeholder(<<"b">>)}
ExpandOverrides == UNION {[d -> ExpandValues] : d \in SUBSET Names}
ExpandStores == UNION {[d -> {JStr(v) : v \in ExpandValues}] : d \in SUBSET Names}

InitExpand ==
    /\ AtRest
    /\ store = <<>> /\ agent = <<>> /\ pool = <<>> /\ job = <<>> /\ loop = <<>>
    /\ mgr = <<>> /\ scale = <<>> /\ hook = <<>>
    /\ wkeys = <<>> /\ nest = <<>>
    /\ \E m \in ExpandStores :
          /\ memory = m
          /\ files = [k \in DOMAIN m |-> json_dumps(m[k])]
    /\ \E tpl \in ExpandTemplates, ov \in ExpandOverrides :
          inter = [pc |-> "start", template |-> tpl, prompt |-> tpl, vars |-> <<>>,
                   ov |-> ov, reads |-> {}, warnings |-> {}]

SpecExpand == InitExpand /\ [][NextInterp]_vars

\* the value a name of the template is given holds a placeholder
HoldsPlaceholder(name) ==
    LET v == Substituted(name, inter.ov, files) IN
    v # Placeholder(name) /\ FindAll(v) # <<>>

\* C27 as stated: interpolation is one pass over the template: a ${b}
\* sequence inside the value substituted for ${a} stays in the result as
\* literal text, whatever else the template holds.
C27_SinglePass ==
    (inter # <<>> /\ inter.pc = "done"
       /\ \E i \in 1..Len(FindAll(inter.template)) :
             HoldsPlaceholder(FindAll(inter.template)[i])) =>
        inter.prompt = ExpectedFrom(inter.template, 1, inter.ov, files)


-----------------------------------------------------------------------------
(* The order of Process.run *)

\* task 0 is in the loop over the steps, at step k
InSteps == Running /\ thr[0].pc \notin {"idle", "enter", "seed"}

TopQid(k) == get_id(TopSteps[k].step_id, <<>>)

\* C28: in Process.run every input is in the Memory Store under its own key
\* before the first step starts; the top-level steps are executed in list
\* order, step k+1 beginning only when step k has returned with its DONE
\* witness written; each is called with an empty override map and without a
\* parent id.
C28_RunOrder ==
    InSteps =>
        /\ \A i \in 1..Len(Inputs) :
              /\ Inputs[i][1] \in DOMAIN files
              /\ json_loads(files[Inputs[i][1]]) = Inputs[i][2]
        /\ \A j \in 1..Len(TopSteps) :
              /\ j < thr[0].k => HasWitness(TopSteps[j].step_id)
              /\ j > thr[0].k => Count(log, TopQid(j)).work = 0
        /\ thr[0].ov = EmptyMap /\ ~thr[0].alias
        /\ ParentId(0) = <<>>

\* C28 witness: in a first run the second step is about to begin: the inputs
\* are seeded, the first step has returned and the third has not begun.
C28_Witness ==
    /\ run = 1 /\ At(0, "check") /\ thr[0].k = 2
    /\ Count(log, TopQid(1)).work = 1 /\ HasWitness(TopQid(1))
    /\ ~HasWitness(TopQid(2)) /\ ~HasWitness(TopQid(3))


-----------------------------------------------------------------------------
(* The order of the acknowledgment *)

\* the event e is among the events of the call
Happened(e) == \E i \in 1..Len(job.events) : job.events[i] = e

\* C30: delete_message is called only after the run has returned, the upload
\* has given a URL and the comment has been posted, in that order; when the
\* upload or the comment fails delete_message is not called and
\* process_issue returns False.
C30_DeleteLast ==
    job # <<>> =>
        /\ Happened("delete") => job.events = <<"run", "upload", "comment", "delete">>
        /\ job.deleted => Happened("delete")
        /\ (Happened("upload failed") \/ Happened("comment failed")) =>
              /\ ~Happened("delete")
              /\ job.pc = "done" => job.result = "False"

\* C30 witness: the comment failed after a successful upload, and
\* process_issue has returned False with the message still in the queue.
C30_Witness ==
    /\ JobAt("done") /\ job.result = "False"
    /\ job.events = <<"run", "upload", "comment failed">>
    /\ ~job.deleted /\ Len(job.released) = 1


-----------------------------------------------------------------------------
(* The attempts of acquire_account_with_retries *)

\* the attempts made so far: every one with the task id drawn at the start,
\* none after a success, none beyond MAX_ACCOUNT_ACQUIRE_RETRIES
AttemptsBounded ==
    job # <<>> =>
        /\ job.calls <= MAX_ACCOUNT_ACQUIRE_RETRIES
        /\ \A t \in job.asked : t \in TaskIds /\ (job.task_id # Missing => t = job.task_id)
        /\ Cardinality(job.asked) <= 1
        /\ job.account_id # Missing =>
              /\ job.calls = job.retries + 1
              /\ job.task_id \in job.asked
        /\ (job.account_id = Missing /\ job.calls > 0 /\ ~JobAt("acquire")) =>
              /\ job.calls = MAX_ACCOUNT_ACQUIRE_RETRIES /\ job.retries = job.calls
              /\ job.task_id = Missing /\ job.result = "False"

\* C31: acquire_account_with_retries ends; it makes at most
\* MAX_ACCOUNT_ACQUIRE_RETRIES attempts, all with the same task id, returns
\* the account of the first successful attempt, and gives no account after
\* the last failed attempt.
C31_AcquireTerminates ==
    /\ []AttemptsBounded
    /\ JobAt("acquire") ~> ~JobAt("acquire")

\* C31 witness: every attempt has failed and no account is returned.
C31_Witness ==
    /\ JobAt("done") /\ job.result = "False"
    /\ job.calls = MAX_ACCOUNT_ACQUIRE_RETRIES /\ job.account_id = Missing

\* C32: the delay slept between two attempts is at most
\* ACCOUNT_ACQUIRE_RETRY_DELAY_MAX seconds, whatever the retry count and
\* the jitter.
C32_DelayCapped ==
    job # <<>> => job.delay <= ACCOUNT_ACQUIRE_RETRY_DELAY_MAX * JitterParts


-----------------------------------------------------------------------------
(* The account manager.  The table holds one item per registered account;
   the workers call acquire_account and release_account, an operator calls
   register_account, and a schedule calls cleanup_stale_accounts.  Every
   call is one invocation of lambda_handler, and invocations of different
   callers run concurrently: an invocation is atomic only in each of its
   requests to the table. *)

AVAILABLE == "AVAILABLE"
IN_USE == "IN_USE"

\* an item of the table: its status and the task id it carries, if any
Item(status, task_id) == [status |-> status, task_id |-> task_id]

\* the order in which table.scan goes through the items
ScanOrders == {<<"A", "B">>, <<"B", "A">>}

RECURSIVE FirstItem(_, _)
FirstItem(order, table) ==
    IF order = <<>> THEN Missing
    ELSE IF Head(order) \in DOMAIN table THEN Head(order)
    ELSE FirstItem(Tail(order), table)

\* table.scan(FilterExpression=Attr('status').eq(AVAILABLE), Limit=1): one
\* item is evaluated, and it is returned when it passes the filter
ScanAvailable(order, table) ==
    LET a == FirstItem(order, table) IN
    IF a # Missing /\ table[a].status = AVAILABLE THEN a ELSE Missing

\* the response of a call and the table as the call found it
Response(op, account_id, task_id, status, before) ==
    [op |-> op, account_id |-> account_id, task_id |-> task_id,
     status |-> status, before |-> before]

InitManager ==
    /\ AtRest
    /\ memory = EmptyMap /\ files = EmptyMap
    /\ inter = <<>> /\ store = <<>> /\ agent = <<>> /\ pool = <<>> /\ job = <<>>
    /\ loop = <<>> /\ scale = <<>> /\ hook = <<>>
    /\ wkeys = <<>> /\ nest = <<>>
    /\ \E order \in ScanOrders :
          mgr = [table |-> EmptyMap, order |-> order,
                 call |-> [t \in TaskIds |-> [pc |-> "idle", found |-> Missing]],
                 granted |-> [a \in Accounts |-> {}],
                 last |-> Response("none", Missing, Missing, 0, EmptyMap)]

NotManager == <<memory, files, cfg, thr, locks, run, phase, expression_list,
               current_step, log, hist, inter, store, agent, pool, job, loop,
               scale, hook, wkeys, nest>>

\* register_account: a new item is put, an item that exists keeps its status
RegisterAccount(a) ==
    /\ mgr # <<>>
    /\ \E fault \in BOOLEAN :
          mgr' = IF fault
                 THEN [mgr EXCEPT !.last = Response("register", a, Missing, 500, mgr.table)]
                 ELSE [mgr EXCEPT
                         !.table = IF a \in DOMAIN mgr.table THEN @
                                   ELSE Put(@, a, Item(AVAILABLE, Missing)),
                         !.last = Response("register", a, Missing, 200, mgr.table)]
    /\ UNCHANGED NotManager

\* acquire_account, the scan: 404 when it returns no item, 500 when it raises
AcquireScan(t) ==
    /\ mgr # <<>> /\ mgr.call[t].pc = "idle"
    /\ \E fault \in BOOLEAN :
          LET a == ScanAvailable(mgr.order, mgr.table) IN
          mgr' = IF fault
                 THEN [mgr EXCEPT !.last = Response("acquire", Missing, t, 500, mgr.table)]
                 ELSE IF a = Missing
                 THEN [mgr EXCEPT !.last = Response("acquire", Missing, t, 404, mgr.table)]
                 ELSE [mgr EXCEPT !.call[t] = [pc |-> "update", found |-> a]]
    /\ UNCHANGED NotManager

\* acquire_account, the update: the item found by the scan is set to IN_USE
\* with the caller's task id, whatever it holds by now
AcquireUpdate(t) ==
    /\ mgr # <<>> /\ mgr.call[t].pc = "update"
    /\ LET a == mgr.call[t].found IN
       \E fault \in BOOLEAN :
          mgr' = IF fault
                 THEN [mgr EXCEPT !.call[t] = [pc |-> "idle", found |-> Missing],
                                  !.last = Response("acquire", a, t, 500, mgr.table)]
                 ELSE [mgr EXCEPT !.call[t] = [pc |-> "idle", found |-> Missing],
                                  !.table = Put(@, a, Item(IN_USE, t)),
                                  !.granted[a] = @ \cup {t},
                                  !.last = Response("acquire", a, t, 200, mgr.table)]
    /\ UNCHANGED NotManager

\* a condition that does not look at the task id of the item
ReleaseConditionAnyTask(table, a, t) ==
    a \in DOMAIN table /\ table[a].status = IN_USE

\* attribute_exists(account_id) AND #status = :in_use_status AND task_id = :task_id
ReleaseCondition(table, a, t) ==
    a \in DOMAIN table /\ table[a].status = IN_USE /\ table[a].task_id = t

\* release_account: 400 for a missing parameter and for a failed condition,
\* 500 for any other exception of the update, 200 when the item is updated
ReleaseAccount(a, t) ==
    /\ mgr # <<>>
    /\ \E fault \in BOOLEAN :
          mgr' = IF a = Missing \/ t = Missing
                 THEN [mgr EXCEPT !.last = Response("release", a, t, 400, mgr.table)]
                 ELSE IF fault
                 THEN [mgr EXCEPT !.last = Response("release", a, t, 500, mgr.table)]
                 ELSE IF ~ReleaseCondition(mgr.table, a, t)
                 THEN [mgr EXCEPT !.last = Response("release", a, t, 400, mgr.table)]
                 ELSE [mgr EXCEPT !.table = Put(@, a, Item(AVAILABLE, Missing)),
                                  !.granted[a] = {},
                                  !.last = Response("release", a, t, 200, mgr.table)]
    /\ UNCHANGED NotManager

\* cleanup_stale_accounts: the IN_USE items last updated more than an hour
\* ago are reset
CleanupStale ==
    /\ mgr # <<>>
    /\ \E stale \in SUBSET {a \in DOMAIN mgr.table : mgr.table[a].status = IN_USE} :
          mgr' = [mgr EXCEPT
                    !.table = [a \in DOMAIN @ |->
                                 IF a \in stale THEN Item(AVAILABLE, Missing) ELSE @[a]],
                    !.granted = [a \in Accounts |-> IF a \in stale THEN {} ELSE @[a]],
                    !.last = Response("cleanup", Missing, Missing, 200, mgr.table)]
    /\ UNCHANGED NotManager

NextManager ==
    \/ \E a \in Accounts : RegisterAccount(a)
    \/ \E t \in TaskIds : AcquireScan(t)
    \/ \E t \in TaskIds : AcquireUpdate(t)
    \/ \E a \in Accounts \cup {Missing}, t \in TaskIds \cup {Missing} : ReleaseAccount(a, t)
    \/ CleanupStale

SpecManager == InitManager /\ [][NextManager]_vars

\* C33: an account is reserved for one task at a time: between two releases
\* of an account at most one acquire_account call is answered with it.
C33_ExclusiveAllocation ==
    mgr # <<>> => \A a \in Accounts : Cardinality(mgr.granted[a]) <= 1


\* the last call was release_account(a, t)
ReleaseAnswered(a, t) ==
    /\ mgr # <<>> /\ mgr.last.op = "release"
    /\ mgr.last.account_id = a /\ mgr.last.task_id = t

\* the item of a was IN_USE with the task id t when the call came
HeldBefore(a, t) ==
    /\ a # Missing /\ t # Missing
    /\ a \in DOMAIN mgr.last.before
    /\ mgr.last.before[a] = Item(IN_USE, t)

\* C34 as stated: the account goes back to AVAILABLE only when it exists, is
\* IN_USE and is held by the given task id; in every other case the answer
\* is 400 and the table is unchanged.
C34_ReleaseOriginal ==
    \A a \in Accounts \cup {Missing}, t \in TaskIds \cup {Missing} :
        ReleaseAnswered(a, t) =>
            /\ mgr.table # mgr.last.before => HeldBefore(a, t)
            /\ ~HeldBefore(a, t) => mgr.last.status = 400 /\ mgr.table = mgr.last.before

\* C34 amended: the account goes back to AVAILABLE, without a task id and
\* with the answer 200, only when it exists, is IN_USE and is held by the
\* given task id; in every other case the table is unchanged and the answer
\* is 400, or 500 when the update raises another exception.
C34_ReleaseAmended ==
    \A a \in Accounts \cup {Missing}, t \in TaskIds \cup {Missing} :
        ReleaseAnswered(a, t) =>
            /\ mgr.last.status \in {200, 400, 500}
            /\ mgr.last.status = 200 <=> mgr.table # mgr.last.before
            /\ mgr.last.status = 200 =>
                  /\ HeldBefore(a, t)
                  /\ mgr.table = Put(mgr.last.before, a, Item(AVAILABLE, Missing))
            /\ mgr.last.status = 400 => ~HeldBefore(a, t)
            /\ (a = Missing \/ t = Missing) => mgr.last.status = 400

\* C34 witness: a task that does not hold the account asked for its release
\* and was refused.
C34_Witness ==
    /\ ReleaseAnswered("A", "t2") /\ mgr.last.status = 400
    /\ "A" \in DOMAIN mgr.table /\ mgr.table["A"] = Item(IN_USE, "t1")


-----------------------------------------------------------------------------
(* The scaling updater: on every event it counts the accounts and the
   messages of the queue and sets the desired count of the service. *)

MaxAccounts == 3
MaxMessages == 3

Smaller(a, b) == IF a < b THEN a ELSE b
Larger(a, b) == IF a > b THEN a ELSE b

\* 0 if message_count == 0 else min(message_count, max(1, total_accounts))
desired_capacity(message_count, total_accounts) ==
    IF message_count = 0 THEN 0
    ELSE Smaller(message_count, Larger(1, total_accounts))

InitScaling ==
    /\ AtRest
    /\ memory = EmptyMap /\ files = EmptyMap
    /\ inter = <<>> /\ store = <<>> /\ agent = <<>> /\ pool = <<>> /\ job = <<>>
    /\ loop = <<>> /\ mgr = <<>> /\ hook = <<>>
    /\ wkeys = <<>> /\ nest = <<>>
    /\ \E valid \in BOOLEAN :
          scale = [accounts |-> 0, messages |-> 0, desired |-> 0, valid |-> valid,
                   total_accounts |-> 0, message_count |-> 0, status |-> 0]

NotScaling == <<memory, files, cfg, thr, locks, run, phase, expression_list,
               current_step, log, hist, inter, store, agent, pool, job, loop,
               mgr, hook, wkeys, nest>>

\* an account is registered or deregistered
AccountsChange ==
    /\ scale # <<>>
    /\ \E n \in {scale.accounts - 1, scale.accounts + 1} :
          /\ n \in 0..MaxAccounts
          /\ scale' = [scale EXCEPT !.accounts = n]
    /\ UNCHANGED NotScaling

\* a message is sent to the queue or deleted from it
MessagesChange ==
    /\ scale # <<>>
    /\ \E n \in {scale.messages - 1, scale.messages + 1} :
          /\ n \in 0..MaxMessages
          /\ scale' = [scale EXCEPT !.messages = n]
    /\ UNCHANGED NotScaling

\* lambda_handler: the counts are read and the desired count is set; 400
\* for a resource id of another form, 500 when a request raises
UpdateScaling ==
    /\ scale # <<>>
    /\ \E fault \in BOOLEAN :
          LET seen == [scale EXCEPT !.total_accounts = scale.accounts,
                                    !.message_count = scale.messages] IN
          scale' = IF fault THEN [scale EXCEPT !.status = 500]
                   ELSE IF ~scale.valid THEN [seen EXCEPT !.status = 400]
                   ELSE [seen EXCEPT
                           !.desired = desired_capacity(scale.messages, scale.accounts),
                           !.status = 200]
    /\ UNCHANGED NotScaling

NextScaling ==
    \/ AccountsChange
    \/ MessagesChange
    \/ UpdateScaling

SpecScaling == InitScaling /\ [][NextScaling]_vars

\* C35: the desired count set by the updater is 0 when the queue holds no
\* message and min(message count, account count) otherwise, and it is never
\* above the account count.
C35_DesiredCount ==
    (scale # <<>> /\ scale.status = 200) =>
        /\ scale.desired = IF scale.message_count = 0 THEN 0
                           ELSE Smaller(scale.message_count, scale.total_accounts)
        /\ scale.desired <= scale.total_accounts


-----------------------------------------------------------------------------
(* The webhook handler: one delivery is validated against the webhook
   secret, filtered, acknowledged with a comment and sent to the queue. *)

\* the secret stored for the handler, and another one
Secrets == {"s1", "s2"}
WebhookSecret == "s1"

\* the body of an event: a new issue, another event, or null
NullBody == "null"
Bodies == {"opened", "other"}

\* 'sha256=' + hmac.new(secret, body, hashlib.sha256).hexdigest()
Signature(secret, body) == <<"sha256=", secret, body>>

\* the X-Hub-Signature-256 header of an event: absent, or some signature
NoHeader == <<>>
Headers == {NoHeader} \cup {Signature(s, b) : s \in Secrets, b \in Bodies}

InitWebhook ==
    /\ AtRest
    /\ memory = EmptyMap /\ files = EmptyMap
    /\ inter = <<>> /\ store = <<>> /\ agent = <<>> /\ pool = <<>> /\ job = <<>>
    /\ loop = <<>> /\ mgr = <<>> /\ scale = <<>>
    /\ wkeys = <<>> /\ nest = <<>>
    /\ \E arn, token, labelled \in BOOLEAN, header \in Headers,
          body \in Bodies \cup {NullBody} :
          hook = [pc |-> "secret", WEBHOOK_SECRET_ARN |-> arn, token |-> token,
                  header |-> header, body |-> body, labelled |-> labelled,
                  webhook_secret |-> Missing, status |-> 0,
                  sent |-> 0, commented |-> 0]

NotWebhook == <<memory, files, cfg, thr, locks, run, phase, expression_list,
               current_step, log, hist, inter, store, agent, pool, job, loop,
               mgr, scale, wkeys, nest>>

HookAt(pc) == hook # <<>> /\ hook.pc = pc

\* the handler returns
Answer(h, status) == [h EXCEPT !.pc = "done", !.status = status]

\* get_webhook_secret: None without the ARN, None when the secret cannot be
\* read, the secret otherwise
GetWebhookSecret ==
    /\ HookAt("secret")
    /\ \E read \in BOOLEAN :
          hook' = [hook EXCEPT
                     !.pc = "validate",
                     !.webhook_secret = IF hook.WEBHOOK_SECRET_ARN /\ read
                                        THEN WebhookSecret ELSE Missing]
    /\ UNCHANGED NotWebhook

\* validate_github_webhook: False without the header and for a signature
\* that differs; body.encode raises on a null body
validate_github_webhook(h) ==
    IF h.header = NoHeader THEN "False"
    ELSE IF h.body = NullBody THEN "AttributeError"
    ELSE IF Signature(h.webhook_secret, h.body) # h.header THEN "False"
    ELSE "True"

\* if webhook_secret and not validate_github_webhook(event, webhook_secret)
Validate ==
    /\ HookAt("validate")
    /\ hook' = IF hook.webhook_secret = Missing THEN [hook EXCEPT !.pc = "parse"]
               ELSE IF validate_github_webhook(hook) = "False" THEN Answer(hook, 401)
               ELSE IF validate_github_webhook(hook) = "AttributeError" THEN Answer(hook, 500)
               ELSE [hook EXCEPT !.pc = "parse"]
    /\ UNCHANGED NotWebhook

\* the payload is parsed and filtered: only a new issue with a required
\* label goes on
Filter ==
    /\ HookAt("parse")
    /\ hook' = IF hook.body = NullBody THEN Answer(hook, 500)
               ELSE IF hook.body # "opened" THEN Answer(hook, 200)
               ELSE IF ~hook.labelled THEN Answer(hook, 200)
               ELSE [hook EXCEPT !.pc = "github"]
    /\ UNCHANGED NotWebhook

\* with a token the issue is fetched and the comment is posted; a failure
\* is logged
Acknowledge ==
    /\ HookAt("github")
    /\ \E ok \in BOOLEAN :
          hook' = [hook EXCEPT !.pc = "send",
                               !.commented = IF hook.token /\ ok THEN @ + 1 ELSE @]
    /\ UNCHANGED NotWebhook

\* sqs.send_message and the event for the scaling
SendMessage ==
    /\ HookAt("send")
    /\ \E ok \in BOOLEAN :
          hook' = IF ok THEN Answer([hook EXCEPT !.sent = @ + 1], 200)
                  ELSE Answer(hook, 500)
    /\ UNCHANGED NotWebhook

NextWebhook ==
    \/ GetWebhookSecret
    \/ Validate
    \/ Filter
    \/ Acknowledge
    \/ SendMessage

SpecWebhook == InitWebhook /\ [][NextWebhook]_vars

\* the event carries no signature of its body under the webhook secret
Unsigned(h) ==
    h.header = NoHeader \/ h.body = NullBody \/ h.header # Signature(WebhookSecret, h.body)

\* C36: with a webhook secret configured, an event whose signature header
\* is missing or is not the HMAC of its body under the secret is answered
\* with 401, and neither a message nor a comment is made for it.
C36_UnsignedRejected ==
    (hook # <<>> /\ hook.WEBHOOK_SECRET_ARN /\ Unsigned(hook)) =>
        /\ hook.sent = 0 /\ hook.commented = 0
        /\ HookAt("done") => hook.status = 401


-----------------------------------------------------------------------------
(* The witnesses of a ForEach, of its iterations and of their body steps *)

\* C37: in every state, in sequential and in parallel mode, the DONE witness
\* of the ForEach implies the marker of every iteration of its list, and the
\* marker of an iteration implies the DONE witness of every body step of
\* that iteration.
C37_WitnessHierarchy ==
    /\ HasWitness(TheForEach.step_id) =>
          \A n \in 1..Len(cfg.items) : HasMarker(IterationId(n))
    /\ \A n \in Iterations :
          HasMarker(IterationId(n)) =>
              \A j \in 1..Len(TheForEach.body) :
                  HasWitness(get_id(TheForEach.body[j].step_id, IterationId(n)))

\* C37 witness: a parallel ForEach over several items has written its DONE
\* witness.
C37_Witness ==
    /\ HasWitness(TheForEach.step_id) /\ cfg.is_parallel /\ ~cfg.list_func
    /\ Len(cfg.items) = MaxItems /\ phase = "done"


-----------------------------------------------------------------------------
(* The status keys of two positions of a process.  A position is a top-level
   step, or a body step in one iteration of a top-level ForEach; the step
   ids are drawn from the short texts without "__". *)

MaxIdLen == 2
IdChars == {"b", "_", "1"}
Texts1 == UNION {[1..n -> IdChars] : n \in 1..MaxIdLen}
StepIds == {s \in Texts1 : ~Contains(s, <<"_", "_">>)}

\* a top-level step has no ForEach and the iteration 0
Position(f, n, step_id) == [f |-> f, n |-> n, step_id |-> step_id]
Positions ==
    {Position(<<>>, 0, s) : s \in StepIds}
        \cup {Position(f, n, s) : f \in StepIds, n \in Iterations, s \in StepIds}

\* f"{self.get_id(parent_id)}_status" of the step at position p
StatusKey(p) ==
    get_id(p.step_id, IF p.f = <<>> THEN <<>> ELSE get_iteration_id(p.f, <<>>, p.n))
        \o STATUS

\* the tool result of read_memory_entry for a key of the set done
WitnessContent(done, k) == IF k \in done THEN <<DONE>> ELSE <<NO_ENTRY>>

InitKeys ==
    /\ AtRest
    /\ memory = EmptyMap /\ files = EmptyMap
    /\ inter = <<>> /\ store = <<>> /\ agent = <<>> /\ pool = <<>> /\ job = <<>>
    /\ loop = <<>> /\ mgr = <<>> /\ scale = <<>> /\ hook = <<>> /\ nest = <<>>
    /\ \E a \in Positions, b \in Positions :
          wkeys = [pc |-> "first", a |-> a, b |-> b, done |-> {}, skipped |-> FALSE]

NotKeys == <<memory, files, cfg, thr, locks, run, phase, expression_list,
            current_step, log, hist, inter, store, agent, pool, job, loop,
            mgr, scale, hook, nest>>

\* Step.execute of the step at position p: a skippable step whose DONE
\* witness is read returns, another one does its work and writes the witness
KeyExecute(w, p) ==
    IF ShouldSkip(Task(p.step_id, <<>>), WitnessContent(w.done, StatusKey(p)))
    THEN [w EXCEPT !.skipped = TRUE]
    ELSE [w EXCEPT !.done = @ \cup {StatusKey(p)}]

ExecuteFirst ==
    /\ wkeys # <<>> /\ wkeys.pc = "first"
    /\ wkeys' = [KeyExecute(wkeys, wkeys.a) EXCEPT !.pc = "second"]
    /\ UNCHANGED NotKeys

ExecuteSecond ==
    /\ wkeys # <<>> /\ wkeys.pc = "second"
    /\ wkeys' = [KeyExecute(wkeys, wkeys.b) EXCEPT !.pc = "done"]
    /\ UNCHANGED NotKeys

NextKeys ==
    \/ ExecuteFirst
    \/ ExecuteSecond

SpecKeys == InitKeys /\ [][NextKeys]_vars

\* C38: with step ids that hold no "__", the status keys of two positions
\* differ: the key of a body step in one iteration from its key in another
\* iteration and from the key of every other step; the witness written at
\* one position does not make the step at the other position skip.
C38_KeysPerPosition ==
    (wkeys # <<>> /\ wkeys.a # wkeys.b) =>
        /\ StatusKey(wkeys.a) # StatusKey(wkeys.b)
        /\ ~wkeys.skipped

\* C38 witness: the same body step has been executed in two iterations of
\* its ForEach, and both have written their witness.
C38_Witness ==
    /\ wkeys # <<>> /\ wkeys.pc = "done" /\ ~wkeys.skipped
    /\ wkeys.a.f # <<>> /\ wkeys.a.f = wkeys.b.f /\ wkeys.a.step_id = wkeys.b.step_id
    /\ wkeys.a.n # wkeys.b.n
    /\ Cardinality(wkeys.done) = 2


-----------------------------------------------------------------------------
(* A ForEach nested in a parallel ForEach.  The outer ForEach runs one task
   per item, each with a profile of its own; the body of every outer
   iteration is the same inner ForEach object, sequential, whose list comes
   from expression_list_func_with_params and whose body is one ExecuteCode
   step that is not skippable.  A step of the model is the code one task
   runs from one await to the next. *)

MaxOuter == 2
MaxInner == 2
Outer == 1..MaxOuter

CodeStep == ExecuteCode(<<"c">>, FALSE)
InnerStep == ForEach(<<"n">>, <<"y">>, <<CodeStep>>, FALSE)
OuterStep == ForEach(<<"o">>, <<"x">>, <<InnerStep>>, TRUE)

\* the list the callable gives in outer iteration e
InnerList(e, len) == [k \in 1..len |-> <<e, k>>]

\* the ids of the executions
OuterIteration(e) == get_iteration_id(OuterStep.step_id, <<>>, e)
InnerQid(e) == get_id(InnerStep.step_id, OuterIteration(e))
InnerIteration(e, i) == get_iteration_id(InnerStep.step_id, OuterIteration(e), i)
CodeQid(e, i) == get_id(CodeStep.step_id, InnerIteration(e, i))

IdleExecution ==
    [pc |-> "idle", list |-> <<>>, resolved |-> <<>>, i |-> 0, seen |-> <<>>]

InitNested ==
    /\ AtRest
    /\ memory = EmptyMap /\ files = EmptyMap
    /\ inter = <<>> /\ store = <<>> /\ agent = <<>> /\ pool = <<>> /\ job = <<>>
    /\ loop = <<>> /\ mgr = <<>> /\ scale = <<>> /\ hook = <<>> /\ wkeys = <<>>
    /\ \E lens \in [Outer -> 0..MaxInner] :
          nest = [run |-> 0, phase |-> "idle", top |-> "idle", done |-> {},
                  lens |-> lens, expression_list |-> <<>>,
                  ex |-> [e \in Outer |-> IdleExecution]]

NotNested == <<memory, files, cfg, thr, locks, run, phase, expression_list,
              current_step, log, hist, inter, store, agent, pool, job, loop,
              mgr, scale, hook, wkeys>>

NestAt(e, pc) == nest # <<>> /\ nest.phase = "running" /\ nest.ex[e].pc = pc
TopAt(pc) == nest # <<>> /\ nest.phase = "running" /\ nest.top = pc
Stored(k) == WitnessContent(nest.done, k)

\* a fresh Process is built and run
NestStart ==
    /\ nest # <<>> /\ nest.phase # "running" /\ nest.run < MaxRuns
    /\ nest' = [nest EXCEPT !.run = @ + 1, !.phase = "running", !.top = "check",
                            !.expression_list = <<>>,
                            !.ex = [e \in Outer |-> IdleExecution]]
    /\ UNCHANGED NotNested

\* Step.execute of the outer ForEach, and the parallel branch of its
\* actual_execute: one task per item
OuterExecute ==
    /\ TopAt("check")
    /\ nest' = IF ShouldSkip(OuterStep, Stored(OuterStep.step_id \o STATUS))
               THEN [nest EXCEPT !.top = "exit"]
               ELSE [nest EXCEPT !.top = "gather",
                                 !.ex = [e \in Outer |-> [IdleExecution EXCEPT !.pc = "ocheck"]]]
    /\ UNCHANGED NotNested

\* _process_iteration of the outer ForEach: a done iteration returns
OuterIterationCheck(e) ==
    /\ NestAt(e, "ocheck")
    /\ nest' = IF IterationDone(Stored(OuterIteration(e) \o ITERATION_STATUS))
               THEN [nest EXCEPT !.ex[e].pc = "done"]
               ELSE [nest EXCEPT !.ex[e].pc = "ovar"]
    /\ UNCHANGED NotNested

\* _actual_process_iteration of the outer ForEach: the loop variable is
\* written and execute of the inner ForEach is called
OuterSetVar(e) ==
    /\ NestAt(e, "ovar")
    /\ nest' = [nest EXCEPT !.ex[e].pc = "icheck"]
    /\ UNCHANGED NotNested

\* Step.execute of the inner ForEach
InnerExecute(e) ==
    /\ NestAt(e, "icheck")
    /\ nest' = IF ShouldSkip(InnerStep, Stored(InnerQid(e) \o STATUS))
               THEN [nest EXCEPT !.ex[e].pc = "omark"]
               ELSE [nest EXCEPT !.ex[e].pc = "getlist"]
    /\ UNCHANGED NotNested

\* a loop that takes its items from the attribute each time round
LoopListShared(n, e) == n.expression_list

\* `for item in self.expression_list`: the loop goes through the list the
\* attribute held when the loop started
LoopList(n, e) == n.ex[e].list

\* the loop of actual_execute calls _process_iteration of item i, or is over
InnerLoop(n, e, i) ==
    IF i <= Len(LoopList(n, e))
    THEN [n EXCEPT !.ex[e].i = i, !.ex[e].pc = "incheck",
                   !.ex[e].seen = Append(@, LoopList(n, e)[i])]
    ELSE [n EXCEPT !.ex[e].pc = "iwstatus"]

\* _get_expression_list: the callable returns, its list is assigned to the
\* attribute; actual_execute starts its loop on the attribute
InnerResolve(e) ==
    /\ NestAt(e, "getlist")
    /\ LET l == InnerList(e, nest.lens[e])
           n == [nest EXCEPT !.expression_list = l, !.ex[e].resolved = l]
       IN  nest' = InnerLoop([n EXCEPT !.ex[e].list = n.expression_list], e, 1)
    /\ UNCHANGED NotNested

\* _process_iteration of the inner ForEach: a done iteration returns
InnerIterationCheck(e) ==
    /\ NestAt(e, "incheck")
    /\ nest' = IF IterationDone(Stored(InnerIteration(e, nest.ex[e].i) \o ITERATION_STATUS))
               THEN InnerLoop(nest, e, nest.ex[e].i + 1)
               ELSE [nest EXCEPT !.ex[e].pc = "ivar"]
    /\ UNCHANGED NotNested

\* _actual_process_iteration of the inner ForEach: the loop variable is
\* written and execute of the body step is called
InnerSetVar(e) ==
    /\ NestAt(e, "ivar")
    /\ nest' = [nest EXCEPT !.ex[e].pc = "bcheck"]
    /\ UNCHANGED NotNested

\* Step.execute of the body step: its code is called unless it is skipped
BodyExecute(e) ==
    /\ NestAt(e, "bcheck")
    /\ nest' = IF ShouldSkip(CodeStep, Stored(CodeQid(e, nest.ex[e].i) \o STATUS))
               THEN [nest EXCEPT !.ex[e].pc = "imark"]
               ELSE [nest EXCEPT !.ex[e].pc = "code"]
    /\ UNCHANGED NotNested

\* ExecuteCode.actual_execute: the code returns
BodyCode(e) ==
    /\ NestAt(e, "code")
    /\ nest' = [nest EXCEPT !.ex[e].pc = "bwstatus"]
    /\ UNCHANGED NotNested

\* Step.execute of the body step: the DONE witness is written
BodyWriteStatus(e) ==
    /\ NestAt(e, "bwstatus")
    /\ nest' = [nest EXCEPT !.done = @ \cup {CodeQid(e, nest.ex[e].i) \o STATUS},
                            !.ex[e].pc = "imark"]
    /\ UNCHANGED NotNested

\* _process_iteration of the inner ForEach: the marker is written, and the
\* loop goes on
InnerIterationMark(e) ==
    /\ NestAt(e, "imark")
    /\ nest' = InnerLoop([nest EXCEPT !.done = @ \cup
                             {InnerIteration(e, nest.ex[e].i) \o ITERATION_STATUS}],
                         e, nest.ex[e].i + 1)
    /\ UNCHANGED NotNested

\* Step.execute of the inner ForEach: the DONE witness is written
InnerWriteStatus(e) ==
    /\ NestAt(e, "iwstatus")
    /\ nest' = [nest EXCEPT !.done = @ \cup {InnerQid(e) \o STATUS},
                            !.ex[e].pc = "omark"]
    /\ UNCHANGED NotNested

\* _process_iteration of the outer ForEach: the marker is written
OuterIterationMark(e) ==
    /\ NestAt(e, "omark")
    /\ nest' = [nest EXCEPT !.done = @ \cup {OuterIteration(e) \o ITERATION_STATUS},
                            !.ex[e].pc = "done"]
    /\ UNCHANGED NotNested

\* asyncio.gather returns, and Step.execute writes the DONE witness of the
\* outer ForEach
OuterGather ==
    /\ TopAt("gather")
    /\ \A e \in Outer : nest.ex[e].pc = "done"
    /\ nest' = [nest EXCEPT !.done = @ \cup {OuterStep.step_id \o STATUS},
                            !.top = "exit"]
    /\ UNCHANGED NotNested

\* Process.run returns
NestExit ==
    /\ TopAt("exit")
    /\ nest' = [nest EXCEPT !.phase = "done", !.top = "idle",
                            !.ex = [e \in Outer |-> IdleExecution]]
    /\ UNCHANGED NotNested

\* the worker is killed at any point of the run
NestCrash ==
    /\ nest # <<>> /\ nest.phase = "running"
    /\ nest' = [nest EXCEPT !.phase = "crashed", !.top = "idle",
                            !.ex = [e \in Outer |-> IdleExecution]]
    /\ UNCHANGED NotNested

NextNested ==
    \/ NestStart
    \/ OuterExecute
    \/ \E e \in Outer : OuterIterationCheck(e)
    \/ \E e \in Outer : OuterSetVar(e)
    \/ \E e \in Outer : InnerExecute(e)
    \/ \E e \in Outer : InnerResolve(e)
    \/ \E e \in Outer : InnerIterationCheck(e)
    \/ \E e \in Outer : InnerSetVar(e)
    \/ \E e \in Outer : BodyExecute(e)
    \/ \E e \in Outer : BodyCode(e)
    \/ \E e \in Outer : BodyWriteStatus(e)
    \/ \E e \in Outer : InnerIterationMark(e)
    \/ \E e \in Outer : InnerWriteStatus(e)
    \/ \E e \in Outer : OuterIterationMark(e)
    \/ OuterGather
    \/ NestExit
    \/ NestCrash

SpecNested == InitNested /\ [][NextNested]_vars

\* the key k holds "done"
HasDone(k) == k \in nest.done

\* the code of the body step starts in iteration i of the inner ForEach of
\* outer iteration e
CodeStarts(e, i) ==
    /\ nest'.ex[e].pc = "code" /\ nest.ex[e].pc # "code"
    /\ nest.ex[e].i = i

\* C39: the body step of an iteration whose marker is "done", or whose
\* ForEach has its DONE witness, does not execute, although the step is not
\* skippable.
C39_MarkedIterationNotRerun ==
    [][\A e \in Outer, i \in 1..MaxInner :
          (nest # <<>> /\ CodeStarts(e, i)) =>
              /\ ~HasDone(InnerIteration(e, i) \o ITERATION_STATUS)
              /\ ~HasDone(InnerQid(e) \o STATUS)
              /\ ~HasDone(OuterIteration(e) \o ITERATION_STATUS)
              /\ ~HasDone(OuterStep.step_id \o STATUS)]_vars

\* C39 witness: in a later run the first iteration, which has its marker and
\* the witness of its body step, is passed over and the code of the second
\* iteration is running.
C39_Witness ==
    /\ nest # <<>> /\ nest.run = 2 /\ NestAt(1, "code") /\ nest.ex[1].i = 2
    /\ nest.ex[1].seen = InnerList(1, 2)
    /\ HasDone(InnerIteration(1, 1) \o ITERATION_STATUS)
    /\ HasDone(CodeQid(1, 1) \o STATUS)
    /\ ~HasDone(CodeQid(1, 2) \o STATUS)

\* l is the start of m
Prefix(l, m) == Len(l) <= Len(m) /\ \A k \in 1..Len(l) : l[k] = m[k]

\* C40: every execution of the inner ForEach goes through the items of the
\* list it resolved itself, whatever the other executions assign to the
\* shared attribute meanwhile.
C40_OwnList ==
    nest # <<>> =>
        \A e \in Outer :
            /\ Prefix(nest.ex[e].seen, nest.ex[e].resolved)
            /\ nest.ex[e].pc = "iwstatus" => nest.ex[e].seen = nest.ex[e].resolved
            /\ nest.ex[e].resolved # <<>> => nest.ex[e].resolved = InnerList(e, nest.lens[e])

\* C40 witness: the first execution is in its loop over its own list while
\* the attribute holds the list of the second execution.
C40_Witness ==
    /\ NestAt(1, "imark") /\ nest.ex[1].i = 1 /\ nest.lens[1] = 2
    /\ nest.expression_list = InnerList(2, nest.lens[2])
    /\ nest.ex[2].pc = "incheck"

====
